---- MODULE Spec2Model ----
(***************************************************************************)
(* Model of the listing reconciliation engine (SyncService.syncDatabase)   *)
(* together with the source adapter (ImoveisService), the record store     *)
(* adapter (DatabaseService) and the statement formatter                   *)
(* (SqlGeneratorService).                                                  *)
(*                                                                         *)
(* The store is the table public.imoveis_vale, one row per codigo_imovel.  *)
(* The feed behind the source adapter is part of the state: an open feed   *)
(* that may serve any snapshot within the bounds, the feed of the          *)
(* end-to-end scenario (baseline A, B, C; snapshot B, C, D), a feed whose  *)
(* elements may lack the code or the title, or the feed two concurrent     *)
(* invocations read.                                                       *)
(* A run of syncDatabase is split at its awaits: the feed fetch, the       *)
(* baseline read (with the synchronous diff that follows it) and one step  *)
(* per store statement of the three apply loops.                           *)
(*                                                                         *)
(* Specifications:                                                         *)
(*   Spec         one invocation at a time, over and over                  *)
(*   SpecPurge    the scenario with rows removed from outside              *)
(*   SpecConc     two invocations interleaved                              *)
(*   SpecSource   the source adapter on one element of the feed            *)
(*   SpecMapping  the store mapping and the formatter on one listing       *)
(*   SpecFlags    one invocation at a time, every spelling of the flag      *)
(***************************************************************************)
EXTENDS Integers, Sequences, FiniteSets, TLC

\* ---------------------------------------------------------------- bounds
\* Longest feed snapshot the source adapter returns in the model.
MaxSnapshot == 2

\* Longest snapshot of the feed two concurrent invocations read.
MaxRaceSnapshot == 1

\* Longest list of <Imovel> elements of the feed that carries invalid records.
MaxPayload == 2

\* Listing codes of the model and the values of the publish flag.
Codes == {"A", "B", "C"}
Flags == {"1", "0"}

\* Invocations of syncDatabase (the sequential specification uses the first).
Procs == {1, 2}

\* ---------------------------------------------------------------- helpers
Range(s) == {s[k] : k \in 1..Len(s)}

\* All orders in which a statement without ORDER BY may return the set S.
Perms(S) ==
  {s \in [1..Cardinality(S) -> S] : \A a, b \in 1..Cardinality(S) : s[a] = s[b] => a = b}

SeqsUpTo(S, n) == UNION {[1..k -> S] : k \in 0..n}

\* ---------------------------------------------------------------- listings
\* A listing as it leaves the source adapter; only the fields the engine and
\* the row's ativo column depend on are kept.
Listings == [CodigoImovel : Codes, Publicar : Flags]

\* The snapshot of the end-to-end scenario: B and C stay, D is new.
ScenarioSnapshot ==
  <<[CodigoImovel |-> "B", Publicar |-> "1"],
    [CodigoImovel |-> "C", Publicar |-> "1"],
    [CodigoImovel |-> "D", Publicar |-> "1"]>>

\* The listings of the feed two concurrent invocations read: codes A and B.
RaceListings == [CodigoImovel : {"A", "B"}, Publicar : Flags]

\* The listings of the feed that spells the publish flag "1", "true" or "0".
FlagListings == [CodigoImovel : {"A", "B"}, Publicar : {"1", "true", "0"}]

\* Snapshots ImoveisService.getImoveis can return on success: any sequence of
\* listings from the open feed, the scenario's snapshot from the scenario feed,
\* any short sequence over two codes from the feed of concurrent invocations,
\* any sequence over two codes from the feed with every spelling of the flag.
Snapshots(feed) ==
  CASE feed = "scenario" -> {ScenarioSnapshot}
    [] feed = "race" -> SeqsUpTo(RaceListings, MaxRaceSnapshot)
    [] feed = "flags" -> SeqsUpTo(FlagListings, MaxSnapshot)
    [] OTHER -> SeqsUpTo(Listings, MaxSnapshot)

\* ApiResponse of a successful and of a failed getImoveis.
ApiSuccess(data) == [success |-> TRUE, hasData |-> TRUE, data |-> data]
ApiFailure == [success |-> FALSE, hasData |-> FALSE, data |-> << >>]

\* ---------------------------------------------------------------- source adapter
\* An <Imovel> element as xml2js hands it over is a function from the names
\* of the child elements it has to their text ("" for an empty element).
\* Of the fields normalizeImovel writes, these are modelled:
OutputFields ==
  {"CodigoImovel", "TituloImovel", "Publicar", "TipoOferta", "UnidadeMetrica",
   "Cidade", "QtdDormitorios"}

\* The fields the Imovel type declares optional; normalizeImovel has no line
\* for any of them.
OptionalFields ==
  {"PrecoAluguel", "QtdSuites", "QtdVagasCobertas", "Mobiliado", "ArCondicionado",
   "Elevador"}

\* The fields of the Imovel record type (those modelled).
ImovelFields == OutputFields \cup OptionalFields

\* The right-hand side of imovel.X || default.
DefaultOf(f) ==
  CASE f \in {"Publicar", "QtdDormitorios"} -> "0"
    [] f = "TipoOferta" -> "1"
    [] f = "UnidadeMetrica" -> "M2"
    [] OTHER -> ""

\* imovel.X is truthy: the element is there and has text.
Truthy(imovel, f) == f \in DOMAIN imovel /\ imovel[f] # ""

\* Variant of isValidImovel: every element is let through.
isValidImovelAcceptsAll(imovel) == imovel = imovel

isValidImovel(imovel) == Truthy(imovel, "CodigoImovel") /\ Truthy(imovel, "TituloImovel")

normalizeImovel(imovel) ==
  [f \in OutputFields |-> IF Truthy(imovel, f) THEN imovel[f] ELSE DefaultOf(f)]

\* parsedData?.Carga?.Imoveis?.Imovel is undefined, one object or an array;
\* "broken" is a parsed feed on which the filter or the map throws.
ImovelArray(parsedData) ==
  CASE parsedData.kind \in {"none", "broken"} -> << >>
    [] parsedData.kind = "one" -> <<parsedData.item>>
    [] parsedData.kind = "many" -> parsedData.items

\* The body of extractImoveis; its catch returns [].
extractImoveis(parsedData) ==
  IF parsedData.kind = "broken" THEN << >>
  ELSE LET valid == SelectSeq(ImovelArray(parsedData), isValidImovel)
       IN  [k \in 1..Len(valid) |-> normalizeImovel(valid[k])]

\* The fields of a normalized listing the engine and the ativo column read.
AsListing(imovel) ==
  [CodigoImovel |-> imovel["CodigoImovel"], Publicar |-> imovel["Publicar"]]

\* getImoveis on a feed that was fetched and parsed.
getImoveis(parsedData) ==
  LET imoveis == extractImoveis(parsedData)
  IN  ApiSuccess([k \in 1..Len(imoveis) |-> AsListing(imoveis[k])])

\* The parsed feed whose elements are the given listings, each with a title.
ParsedFeed(data) ==
  LET element(l) == [f \in {"CodigoImovel", "TituloImovel", "Publicar"} |->
                       CASE f = "CodigoImovel" -> l.CodigoImovel
                         [] f = "TituloImovel" -> "T"
                         [] f = "Publicar" -> l.Publicar]
  IN  CASE Len(data) = 0 -> [kind |-> "none"]
        [] Len(data) = 1 -> [kind |-> "one", item |-> element(data[1])]
        [] OTHER -> [kind |-> "many", items |-> [k \in 1..Len(data) |-> element(data[k])]]

\* The elements of the feed that carries invalid records: code A or an empty
\* or missing code, with or without a title, with or without the publish flag.
FunctionsOn(fields, values) == UNION {[F -> values] : F \in SUBSET fields}

RawElements ==
  {e \in FunctionsOn({"CodigoImovel", "TituloImovel", "Publicar"}, {"A", "T", "1", ""}) :
     /\ "CodigoImovel" \in DOMAIN e => e["CodigoImovel"] \in {"A", ""}
     /\ "TituloImovel" \in DOMAIN e => e["TituloImovel"] = "T"
     /\ "Publicar" \in DOMAIN e => e["Publicar"] = "1"}

RawPayloads ==
  {[kind |-> "none"], [kind |-> "broken"]}
  \cup {[kind |-> "one", item |-> e] : e \in RawElements}
  \cup {[kind |-> "many", items |-> es] : es \in SeqsUpTo(RawElements, MaxPayload) \ {<< >>}}

\* What the feed can hold when it is fetched.
Payloads(feed) ==
  IF feed = "raw" THEN RawPayloads ELSE {ParsedFeed(data) : data \in Snapshots(feed)}

\* Variant of FetchRejected: an empty snapshot is refused too
\* (!success || !data || data.length === 0).
FetchRejectedOnEmpty(apiResponse) ==
  ~apiResponse.success \/ ~apiResponse.hasData \/ apiResponse.data = << >>

\* The guard of syncDatabase on the response: !success || !data
\* (an empty array is truthy, so an empty snapshot does not abort).
FetchRejected(apiResponse) == ~apiResponse.success \/ ~apiResponse.hasData

\* ---------------------------------------------------------------- store mapping
\* Variant of parseBoolean: only "1" is true.
parseBooleanOnlyOne(value) == value = "1"

parseBoolean(value) == value = "1" \/ value = "true"

\* data_atualizacao is either the date mapped from the feed or the
\* CURRENT_TIMESTAMP written by a soft delete.
FeedDate == "feed"
CurrentTimestamp == "now"

\* Variant of mapImovelToDatabaseValues: every row written is active.
mapImovelToDatabaseValuesAlwaysActive(imovel) ==
  [codigo_imovel |-> imovel.CodigoImovel,
   ativo |-> TRUE,
   data_atualizacao |-> FeedDate]

mapImovelToDatabaseValues(imovel) ==
  [codigo_imovel |-> imovel.CodigoImovel,
   ativo |-> parseBoolean(imovel.Publicar),
   data_atualizacao |-> FeedDate]

\* ---------------------------------------------------------------- statements
\* store is a function from the codes that have a row to the row.
RowOf(values) == [ativo |-> values.ativo, data_atualizacao |-> values.data_atualizacao]

\* Variant of SelectActiveCodes: the statement has no WHERE clause.
SelectAllCodes(s) == DOMAIN s

\* SELECT codigo_imovel ... WHERE ativo = true
SelectActiveCodes(s) == {c \in DOMAIN s : s[c].ativo}

\* The table is keyed by codigo_imovel: an INSERT of a present code is rejected.
UniqueViolation(s, code) == code \in DOMAIN s

\* INSERT INTO public.imoveis_vale (...) VALUES (...)
InsertRow(s, values) == (values.codigo_imovel :> RowOf(values)) @@ s

\* Variant of UpdateRow: the statement creates the row of a code that has
\* none (INSERT ... ON CONFLICT (codigo_imovel) DO UPDATE).
UpdateRowUpserts(s, values) == (values.codigo_imovel :> RowOf(values)) @@ s

\* UPDATE public.imoveis_vale SET ... WHERE codigo_imovel = $1
UpdateRow(s, values) ==
  [c \in DOMAIN s |-> IF c = values.codigo_imovel THEN RowOf(values) ELSE s[c]]

\* Variant of SoftDeleteRow: the row is removed (DELETE FROM ... WHERE codigo_imovel = $1).
SoftDeleteRowRemoves(s, code) == [c \in DOMAIN s \ {code} |-> s[c]]

\* UPDATE ... SET ativo = false, data_atualizacao = CURRENT_TIMESTAMP WHERE codigo_imovel = $1
SoftDeleteRow(s, code) ==
  [c \in DOMAIN s |->
     IF c = code THEN [ativo |-> FALSE, data_atualizacao |-> CurrentTimestamp] ELSE s[c]]

\* ---------------------------------------------------------------- state
VARIABLES
  store,   \* the rows of public.imoveis_vale
  run,     \* per invocation: position, locals and SyncResult of syncDatabase
  source,  \* the feed behind apiUrl: "open", "scenario", "race", "raw" or "flags"
  probe    \* a direct call of the source adapter or of a mapper: input and outputs

vars == <<store, run, source, probe>>

\* No direct call is under way (the engine specifications).
NoProbe == [kind |-> "none"]

EmptyStore == [c \in {} |-> [ativo |-> FALSE, data_atualizacao |-> FeedDate]]

\* const result: SyncResult = { success: false, added: 0, ... errors: [] }
FreshResult == [success |-> FALSE, added |-> 0, updated |-> 0, deleted |-> 0, errors |-> << >>]

\* log, store0, fetchFailed, baselineFailed, prev, repeat, noRow, dropped and
\* payload record what the run did; the code does not read them. noRow holds
\* the codes whose UPDATE statement resolved with no row matched, dropped the
\* number of elements of the feed that extractImoveis filtered out, payload
\* the shape of the parsed feed.
FreshRun ==
  [pc |-> "idle",
   apiImoveis |-> << >>, existingCodes |-> << >>,
   toAdd |-> << >>, toUpdate |-> << >>, toDelete |-> << >>,
   i |-> 1,
   result |-> FreshResult,
   log |-> << >>,
   store0 |-> EmptyStore,
   fetchFailed |-> FALSE, baselineFailed |-> FALSE,
   prev |-> << >>, repeat |-> FALSE,
   noRow |-> {}, dropped |-> 0, payload |-> ""]

\* The store of the end-to-end scenario: A, B and C synchronized and active.
ScenarioStore ==
  [c \in {"A", "B", "C"} |-> [ativo |-> TRUE, data_atualizacao |-> FeedDate]]

\* A new deployment on an empty table with any feed of valid records or with
\* the feed that carries invalid ones, or the end-to-end scenario: its store
\* and its feed.
Init ==
  /\ run = [p \in Procs |-> FreshRun]
  /\ probe = NoProbe
  /\ \/ store = EmptyStore /\ source \in {"open", "raw"}
     \/ store = ScenarioStore /\ source = "scenario"

\* outcome is "ok", or what made the call fail: "connection" or "constraint".
LogEntry(op, code, outcome) == [op |-> op, code |-> code, outcome |-> outcome]
ErrorMsg(op, code) == [op |-> op, code |-> code]

\* ---------------------------------------------------------------- diff
\* toAdd / toUpdate / toDelete of syncDatabase.
ToAdd(apiImoveis, existingCodes) ==
  LET notExisting(imovel) == imovel.CodigoImovel \notin Range(existingCodes)
  IN  SelectSeq(apiImoveis, notExisting)

ToUpdate(apiImoveis, existingCodes) ==
  LET existing(imovel) == imovel.CodigoImovel \in Range(existingCodes)
  IN  SelectSeq(apiImoveis, existing)

\* Variant of ToDelete: the filter keeps the codes the snapshot has.
ToDeleteKeepsPresent(apiImoveis, existingCodes) ==
  LET apiCodes == {apiImoveis[k].CodigoImovel : k \in 1..Len(apiImoveis)}
      inApi(code) == code \in apiCodes
  IN  SelectSeq(existingCodes, inApi)

ToDelete(apiImoveis, existingCodes) ==
  LET apiCodes == {apiImoveis[k].CodigoImovel : k \in 1..Len(apiImoveis)}
      notInApi(code) == code \notin apiCodes
  IN  SelectSeq(existingCodes, notInApi)

\* Variant of Advance: the add loop runs before the update loop.
AdvanceAddBeforeUpdate(r, ph, i) ==
  LET ia == IF ph = "add" THEN i ELSE 1
      iu == IF ph = "update" THEN i ELSE 1
  IN  IF ph = "delete" /\ i <= Len(r.toDelete)
        THEN [r EXCEPT !.pc = "delete", !.i = i]
      ELSE IF ph \in {"delete", "add"} /\ ia <= Len(r.toAdd)
        THEN [r EXCEPT !.pc = "add", !.i = ia]
      ELSE IF iu <= Len(r.toUpdate)
        THEN [r EXCEPT !.pc = "update", !.i = iu]
      ELSE [r EXCEPT !.pc = "finalize", !.i = 1]

\* The position of the run once the loop at phase ph has reached index i:
\* the delete loop, then the update loop, then the add loop, then step 8.
Advance(r, ph, i) ==
  LET iu == IF ph = "update" THEN i ELSE 1
      ia == IF ph = "add" THEN i ELSE 1
  IN  IF ph = "delete" /\ i <= Len(r.toDelete)
        THEN [r EXCEPT !.pc = "delete", !.i = i]
      ELSE IF ph \in {"delete", "update"} /\ iu <= Len(r.toUpdate)
        THEN [r EXCEPT !.pc = "update", !.i = iu]
      ELSE IF ia <= Len(r.toAdd)
        THEN [r EXCEPT !.pc = "add", !.i = ia]
      ELSE [r EXCEPT !.pc = "finalize", !.i = 1]

\* Steps 3 and 4 of syncDatabase on the codes the baseline read returned.
Diff(r, existingCodes) ==
  Advance([r EXCEPT !.existingCodes = existingCodes,
                    !.toAdd = ToAdd(r.apiImoveis, existingCodes),
                    !.toUpdate = ToUpdate(r.apiImoveis, existingCodes),
                    !.toDelete = ToDelete(r.apiImoveis, existingCodes)],
          "delete", 1)

\* ---------------------------------------------------------------- actions
\* Variant of StartSync: the SyncResult is a field of the service that every
\* invocation keeps counting in, not a local built per invocation.
StartSyncSharedResult(p) ==
  /\ run[p].pc \in {"idle", "done"}
  /\ run' = [run EXCEPT ![p] =
       [FreshRun EXCEPT
          !.pc = "fetch",
          !.store0 = store,
          !.result = run[CHOOSE q \in Procs : q # p].result,
          !.prev = IF run[p].pc = "done" /\ run[p].result.errors = << >>
                     THEN <<run[p].apiImoveis>> ELSE << >>]]
  /\ UNCHANGED <<store, source, probe>>

\* syncDatabase is invoked: a fresh SyncResult.
StartSync(p) ==
  /\ run[p].pc \in {"idle", "done"}
  /\ run' = [run EXCEPT ![p] =
       [FreshRun EXCEPT
          !.pc = "fetch",
          !.store0 = store,
          !.prev = IF run[p].pc = "done" /\ run[p].result.errors = << >>
                     THEN <<run[p].apiImoveis>> ELSE << >>]]
  /\ UNCHANGED <<store, source, probe>>

\* getImoveis resolves with a snapshot.
FetchOk(p) ==
  /\ run[p].pc = "fetch"
  /\ \E parsedData \in Payloads(source) :
       LET apiResponse == getImoveis(parsedData) IN
       /\ ~FetchRejected(apiResponse)
       /\ run' = [run EXCEPT ![p] =
            [@ EXCEPT !.pc = "baseline",
                      !.apiImoveis = apiResponse.data,
                      !.dropped = Len(ImovelArray(parsedData)) - Len(apiResponse.data),
                      !.payload = parsedData.kind,
                      !.repeat = (run[p].prev = <<apiResponse.data>>),
                      !.prev = << >>,
                      !.log = Append(@, LogEntry("fetch", "", "ok"))]]
  /\ UNCHANGED <<store, source, probe>>

\* Variant of FetchFail: the outer catch pushes no message.
FetchFailNoMessage(p) ==
  /\ run[p].pc = "fetch"
  /\ FetchRejected(ApiFailure)
  /\ run' = [run EXCEPT ![p] =
       [@ EXCEPT !.pc = "done",
                 !.fetchFailed = TRUE,
                 !.prev = << >>,
                 !.result = [@ EXCEPT !.success = FALSE],
                 !.log = Append(@, LogEntry("fetch", "", "connection"))]]
  /\ UNCHANGED <<store, source, probe>>

\* getImoveis reports a fetch or parse failure: the throw of line 36 lands in
\* the outer catch.
FetchFail(p) ==
  /\ run[p].pc = "fetch"
  /\ FetchRejected(ApiFailure)
  /\ run' = [run EXCEPT ![p] =
       [@ EXCEPT !.pc = "done",
                 !.fetchFailed = TRUE,
                 !.prev = << >>,
                 !.result = [@ EXCEPT !.errors = Append(@, ErrorMsg("sync", "")),
                                      !.success = FALSE],
                 !.log = Append(@, LogEntry("fetch", "", "connection"))]]
  /\ UNCHANGED <<store, source, probe>>

\* getExistingPropertyCodes returns the active codes; the diff follows.
GetExistingOk(p) ==
  /\ run[p].pc = "baseline"
  /\ \E existingCodes \in Perms(SelectActiveCodes(store)) :
       run' = [run EXCEPT ![p] =
         Diff([@ EXCEPT !.log = Append(@, LogEntry("select", "", "ok"))], existingCodes)]
  /\ UNCHANGED <<store, source, probe>>

\* Variant of GetExistingFail: the connectivity error is rethrown and lands
\* in the outer catch of syncDatabase.
GetExistingFailThrows(p) ==
  /\ run[p].pc = "baseline"
  /\ run' = [run EXCEPT ![p] =
       [@ EXCEPT !.pc = "done",
                 !.baselineFailed = TRUE,
                 !.result = [@ EXCEPT !.errors = Append(@, ErrorMsg("sync", "")),
                                      !.success = FALSE],
                 !.log = Append(@, LogEntry("select", "", "connection"))]]
  /\ UNCHANGED <<store, source, probe>>

\* getExistingPropertyCodes catches a connectivity error and returns [].
GetExistingFail(p) ==
  /\ run[p].pc = "baseline"
  /\ run' = [run EXCEPT ![p] =
       Diff([@ EXCEPT !.baselineFailed = TRUE,
                      !.log = Append(@, LogEntry("select", "", "connection"))], << >>)]
  /\ UNCHANGED <<store, source, probe>>

\* Step 5, one iteration whose softDeleteProperty resolves.
SoftDeleteOk(p) ==
  /\ run[p].pc = "delete"
  /\ LET r == run[p]
         codigoImovel == r.toDelete[r.i]
     IN  /\ store' = SoftDeleteRow(store, codigoImovel)
         /\ run' = [run EXCEPT ![p] =
              Advance([r EXCEPT !.result.deleted = @ + 1,
                                !.noRow = IF codigoImovel \in DOMAIN store
                                            THEN @ ELSE @ \cup {codigoImovel},
                                !.log = Append(@, LogEntry("softDelete", codigoImovel, "ok"))],
                      "delete", r.i + 1)]
  /\ UNCHANGED <<source, probe>>

\* Variant of SoftDeleteFail: the failure ends the apply step (no try/catch
\* inside the loop).
SoftDeleteFailAborts(p) ==
  /\ run[p].pc = "delete"
  /\ LET r == run[p]
         codigoImovel == r.toDelete[r.i]
     IN  run' = [run EXCEPT ![p] =
           [r EXCEPT !.pc = "finalize", !.i = 1,
                     !.result.errors = Append(@, ErrorMsg("delete", codigoImovel)),
                     !.log = Append(@, LogEntry("softDelete", codigoImovel, "connection"))]]
  /\ UNCHANGED <<store, source, probe>>

\* Step 5, one iteration whose softDeleteProperty throws.
SoftDeleteFail(p) ==
  /\ run[p].pc = "delete"
  /\ LET r == run[p]
         codigoImovel == r.toDelete[r.i]
     IN  run' = [run EXCEPT ![p] =
           Advance([r EXCEPT !.result.errors = Append(@, ErrorMsg("delete", codigoImovel)),
                             !.log = Append(@, LogEntry("softDelete", codigoImovel, "connection"))],
                   "delete", r.i + 1)]
  /\ UNCHANGED <<store, source, probe>>

\* Step 6, one iteration whose updateProperty resolves.
UpdateOk(p) ==
  /\ run[p].pc = "update"
  /\ LET r == run[p]
         imovel == r.toUpdate[r.i]
     IN  /\ store' = UpdateRow(store, mapImovelToDatabaseValues(imovel))
         /\ run' = [run EXCEPT ![p] =
              Advance([r EXCEPT !.result.updated = @ + 1,
                                !.noRow = IF imovel.CodigoImovel \in DOMAIN store
                                            THEN @ ELSE @ \cup {imovel.CodigoImovel},
                                !.log = Append(@, LogEntry("update", imovel.CodigoImovel, "ok"))],
                      "update", r.i + 1)]
  /\ UNCHANGED <<source, probe>>

\* Variant of UpdateFail: the catch logs the failure and pushes no message.
UpdateFailSilent(p) ==
  /\ run[p].pc = "update"
  /\ LET r == run[p]
         imovel == r.toUpdate[r.i]
     IN  run' = [run EXCEPT ![p] =
           Advance([r EXCEPT !.log = Append(@, LogEntry("update", imovel.CodigoImovel, "connection"))],
                   "update", r.i + 1)]
  /\ UNCHANGED <<store, source, probe>>

\* Variant of UpdateFail: the catch pushes the message and the loop issues
\* the call of the same record again.
UpdateFailRetries(p) ==
  /\ run[p].pc = "update"
  /\ LET r == run[p]
         imovel == r.toUpdate[r.i]
     IN  run' = [run EXCEPT ![p] =
           [r EXCEPT !.result.errors = Append(@, ErrorMsg("update", imovel.CodigoImovel)),
                     !.log = Append(@, LogEntry("update", imovel.CodigoImovel, "connection"))]]
  /\ UNCHANGED <<store, source, probe>>

\* Step 6, one iteration whose updateProperty throws.
UpdateFail(p) ==
  /\ run[p].pc = "update"
  /\ LET r == run[p]
         imovel == r.toUpdate[r.i]
     IN  run' = [run EXCEPT ![p] =
           Advance([r EXCEPT !.result.errors = Append(@, ErrorMsg("update", imovel.CodigoImovel)),
                             !.log = Append(@, LogEntry("update", imovel.CodigoImovel, "connection"))],
                   "update", r.i + 1)]
  /\ UNCHANGED <<store, source, probe>>

\* Variant of InsertOk: the statement overwrites the row of a present code
\* (INSERT ... ON CONFLICT DO UPDATE).
InsertOkUpserts(p) ==
  /\ run[p].pc = "add"
  /\ LET r == run[p]
         imovel == r.toAdd[r.i]
     IN  /\ store' = InsertRow(store, mapImovelToDatabaseValues(imovel))
         /\ run' = [run EXCEPT ![p] =
              Advance([r EXCEPT !.result.added = @ + 1,
                                !.log = Append(@, LogEntry("insert", imovel.CodigoImovel, "ok"))],
                      "add", r.i + 1)]
  /\ UNCHANGED <<source, probe>>

\* Step 7, one iteration whose insertProperty resolves.
InsertOk(p) ==
  /\ run[p].pc = "add"
  /\ LET r == run[p]
         imovel == r.toAdd[r.i]
     IN  /\ ~UniqueViolation(store, imovel.CodigoImovel)
         /\ store' = InsertRow(store, mapImovelToDatabaseValues(imovel))
         /\ run' = [run EXCEPT ![p] =
              Advance([r EXCEPT !.result.added = @ + 1,
                                !.log = Append(@, LogEntry("insert", imovel.CodigoImovel, "ok"))],
                      "add", r.i + 1)]
  /\ UNCHANGED <<source, probe>>

\* Variant of InsertFail: the message is put at the front of the error list
\* (unshift instead of push).
InsertFailPrepends(p) ==
  /\ run[p].pc = "add"
  /\ LET r == run[p]
         imovel == r.toAdd[r.i]
         causes == {"connection"} \cup
                   (IF UniqueViolation(store, imovel.CodigoImovel) THEN {"constraint"} ELSE {})
     IN  \E cause \in causes :
           run' = [run EXCEPT ![p] =
             Advance([r EXCEPT !.result.errors = <<ErrorMsg("add", imovel.CodigoImovel)>> \o @,
                               !.log = Append(@, LogEntry("insert", imovel.CodigoImovel, cause))],
                     "add", r.i + 1)]
  /\ UNCHANGED <<store, source, probe>>

\* Step 7, one iteration whose insertProperty throws (connectivity, or the
\* key constraint).
InsertFail(p) ==
  /\ run[p].pc = "add"
  /\ LET r == run[p]
         imovel == r.toAdd[r.i]
         causes == {"connection"} \cup
                   (IF UniqueViolation(store, imovel.CodigoImovel) THEN {"constraint"} ELSE {})
     IN  \E cause \in causes :
           run' = [run EXCEPT ![p] =
             Advance([r EXCEPT !.result.errors = Append(@, ErrorMsg("add", imovel.CodigoImovel)),
                               !.log = Append(@, LogEntry("insert", imovel.CodigoImovel, cause))],
                     "add", r.i + 1)]
  /\ UNCHANGED <<store, source, probe>>

\* Variant of Finalize: success is set whatever the error list holds.
FinalizeAlwaysSuccess(p) ==
  /\ run[p].pc = "finalize"
  /\ run' = [run EXCEPT ![p] = [@ EXCEPT !.pc = "done", !.result.success = TRUE]]
  /\ UNCHANGED <<store, source, probe>>

\* Step 8: success = no errors; the result is returned.
Finalize(p) ==
  /\ run[p].pc = "finalize"
  /\ run' = [run EXCEPT ![p] =
       [@ EXCEPT !.pc = "done", !.result.success = (run[p].result.errors = << >>)]]
  /\ UNCHANGED <<store, source, probe>>

\* ---------------------------------------------------------------- specification
\* One invocation at a time: the next run starts when the previous returned.
SeqStart == StartSync(1)

Step(p) ==
  \/ FetchOk(p)
  \/ FetchFail(p)
  \/ GetExistingOk(p)
  \/ GetExistingFail(p)
  \/ SoftDeleteOk(p)
  \/ SoftDeleteFail(p)
  \/ UpdateOk(p)
  \/ UpdateFail(p)
  \/ InsertOk(p)
  \/ InsertFail(p)
  \/ Finalize(p)

Next == SeqStart \/ \E p \in Procs : Step(p)

Spec == Init /\ [][Next]_vars

\* ---------------------------------------------------------------- reading a run
CodesOf(imoveis) == {imoveis[k].CodigoImovel : k \in 1..Len(imoveis)}

\* The run has computed its diff.
Diffed(r) == r.pc \in {"delete", "update", "add", "finalize", "done"} /\ ~r.fetchFailed

\* The run has returned its SyncResult without aborting at the fetch.
Completed(r) == r.pc = "done" /\ ~r.fetchFailed

RecordOps == {"softDelete", "update", "insert"}

Entries(r, ops) == {k \in 1..Len(r.log) : r.log[k].op \in ops}
OkEntries(r, ops) == {k \in Entries(r, ops) : r.log[k].outcome = "ok"}
FailedEntries(r, ops) == {k \in Entries(r, ops) : r.log[k].outcome # "ok"}

\* The message the engine pushes for a failed call of the store or the feed.
MessageOf(e) ==
  ErrorMsg(CASE e.op = "softDelete" -> "delete"
             [] e.op = "update" -> "update"
             [] e.op = "insert" -> "add"
             [] OTHER -> "sync",
           e.code)

\* The per-record calls the diff of the run asks for, in apply order.
Planned(r) ==
  [k \in 1..Len(r.toDelete) |-> [op |-> "softDelete", code |-> r.toDelete[k]]]
  \o [k \in 1..Len(r.toUpdate) |-> [op |-> "update", code |-> r.toUpdate[k].CodigoImovel]]
  \o [k \in 1..Len(r.toAdd) |-> [op |-> "insert", code |-> r.toAdd[k].CodigoImovel]]

\* The per-record calls the run has issued so far, in the order issued.
Attempted(r) ==
  LET isRecordOp(e) == e.op \in RecordOps
      recs == SelectSeq(r.log, isRecordOp)
  IN  [k \in 1..Len(recs) |-> [op |-> recs[k].op, code |-> recs[k].code]]

\* ---------------------------------------------------------------- claims

\* C1: the diff is an exact partition by code: with S the codes of the
\* snapshot and B the codes of the baseline, toAdd = S \ B, toUpdate = S \cap B,
\* toDelete = B \ S, the three are pairwise disjoint, |toAdd| + |toUpdate| = |S|
\* and |toDelete| + |toUpdate| = |B|.
DiffPartitionExact ==
  \A p \in Procs :
    Diffed(run[p]) =>
      LET S == CodesOf(run[p].apiImoveis)
          B == Range(run[p].existingCodes)
          add == CodesOf(run[p].toAdd)
          upd == CodesOf(run[p].toUpdate)
          del == Range(run[p].toDelete)
      IN  /\ add = S \ B
          /\ upd = S \cap B
          /\ del = B \ S
          /\ add \cap upd = {} /\ add \cap del = {} /\ upd \cap del = {}
          /\ Cardinality(add) + Cardinality(upd) = Cardinality(S)
          /\ Cardinality(del) + Cardinality(upd) = Cardinality(B)

\* A diff with a code to add, a code to update and a code to delete.
DiffPartitionWitness ==
  \E p \in Procs :
    /\ Diffed(run[p])
    /\ run[p].toAdd # << >> /\ run[p].toUpdate # << >> /\ run[p].toDelete # << >>

\* C2: a run that follows a run without errors and fetches the same snapshot
\* finds nothing to add and nothing to delete, updates the whole snapshot and,
\* no connection failing, reports no error.
Idempotence ==
  \A p \in Procs :
    (run[p].repeat /\ Diffed(run[p]) /\ ~run[p].baselineFailed) =>
      /\ run[p].toAdd = << >>
      /\ run[p].toDelete = << >>
      /\ run[p].toUpdate = run[p].apiImoveis
      /\ (\A k \in 1..Len(run[p].log) : run[p].log[k].outcome # "connection")
           => run[p].result.errors = << >>

\* C3: a failed store call costs one message and stops nothing: a completed
\* run has attempted every planned call exactly once, its error list has one
\* message per failed call, and with exactly one failure the result has one
\* message, success = false and counts every other record.
PartialFailureIsolation ==
  \A p \in Procs :
    LET r == run[p] IN
    /\ ~r.fetchFailed => Len(r.result.errors) = Cardinality(FailedEntries(r, RecordOps))
    /\ Completed(r) =>
         /\ Attempted(r) = Planned(r)
         /\ Cardinality(FailedEntries(r, RecordOps)) = 1 =>
              /\ Len(r.result.errors) = 1
              /\ r.result.success = FALSE
              /\ r.result.added + r.result.updated + r.result.deleted
                   = Len(r.toAdd) + Len(r.toUpdate) + Len(r.toDelete) - 1

\* A completed run whose first call failed and whose later calls, in the same
\* phase and in a later one, went through.
PartialFailureWitness ==
  \E p \in Procs :
    LET r == run[p] IN
    /\ Completed(r)
    /\ Cardinality(FailedEntries(r, RecordOps)) = 1
    /\ Len(Attempted(r)) >= 3
    /\ r.log[3].outcome # "ok"
    /\ r.result.added + r.result.updated + r.result.deleted >= 2

\* C4: in the calls a run issues, no update and no insert comes before a soft
\* delete, and no insert comes before an update.
PhaseRank(op) == CASE op = "softDelete" -> 1 [] op = "update" -> 2 [] op = "insert" -> 3

ApplyOrder ==
  \A p \in Procs :
    LET calls == Attempted(run[p]) IN
    \A a, b \in 1..Len(calls) : a < b => PhaseRank(calls[a].op) <= PhaseRank(calls[b].op)

\* A run that has issued a soft delete, then an update, then an insert.
ApplyOrderWitness ==
  \E p \in Procs :
    LET calls == Attempted(run[p]) IN
    /\ Len(calls) >= 3
    /\ {calls[k].op : k \in 1..Len(calls)} = RecordOps

\* C5: a completed run has success = (no errors), each count is the number of
\* calls of its kind that went through, counts and errors add up to the size
\* of the diff, and baseline {A, B, C} with snapshot B, C, D and no failure
\* gives added 1, updated 2, deleted 1, no errors, success.
FinalizeCounts ==
  \A p \in Procs :
    LET r == run[p] IN
    Completed(r) =>
      /\ r.result.success = (r.result.errors = << >>)
      /\ r.result.added = Cardinality(OkEntries(r, {"insert"}))
      /\ r.result.updated = Cardinality(OkEntries(r, {"update"}))
      /\ r.result.deleted = Cardinality(OkEntries(r, {"softDelete"}))
      /\ r.result.added + r.result.updated + r.result.deleted + Len(r.result.errors)
           = Len(r.toAdd) + Len(r.toUpdate) + Len(r.toDelete)
      /\ (/\ Range(r.existingCodes) = {"A", "B", "C"}
          /\ r.apiImoveis = ScenarioSnapshot
          /\ FailedEntries(r, RecordOps) = {})
           => r.result = [success |-> TRUE, added |-> 1, updated |-> 2, deleted |-> 1,
                          errors |-> << >>]

\* The end-to-end scenario, completed without a failure.
FinalizeScenarioWitness ==
  \E p \in Procs :
    LET r == run[p] IN
    /\ Completed(r)
    /\ Range(r.existingCodes) = {"A", "B", "C"}
    /\ r.apiImoveis = ScenarioSnapshot
    /\ FailedEntries(r, RecordOps) = {}
    /\ r.result.added = 1 /\ r.result.updated = 2 /\ r.result.deleted = 1

\* C6: a run whose fetch failed has returned success = false, zero counts
\* and the one fetch message, has issued no store call and has left the
\* store as it found it.
FetchFailureAborts ==
  \A p \in Procs :
    LET r == run[p] IN
    r.fetchFailed =>
      /\ r.pc = "done"
      /\ r.result = [success |-> FALSE, added |-> 0, updated |-> 0, deleted |-> 0,
                     errors |-> <<ErrorMsg("sync", "")>>]
      /\ Entries(r, RecordOps \cup {"select"}) = {}
      /\ store = r.store0

\* A fetch failure over a store that has an active row.
FetchFailureWitness ==
  \E p \in Procs :
    /\ run[p].fetchFailed
    /\ run[p].pc = "done"
    /\ SelectActiveCodes(store) # {}

\* C7 as stated: in the result a run returns, every failure of the run (of
\* the fetch, of the baseline read, of a per-record call) has its message.
EveryFailureInErrorList ==
  \A p \in Procs :
    LET r == run[p] IN
    r.pc = "done" =>
      Len(r.result.errors) = Cardinality(FailedEntries(r, RecordOps \cup {"fetch", "select"}))

\* C7 as amended: every run that stops has returned a result in which every
\* failed fetch and every failed per-record call has its message and nothing
\* else has; a failed baseline read has none.
FetchAndRecordFailuresInErrorList ==
  \A p \in Procs :
    LET r == run[p] IN
    r.pc = "done" =>
      /\ \A k \in FailedEntries(r, RecordOps \cup {"fetch"}) :
           \E m \in 1..Len(r.result.errors) : r.result.errors[m] = MessageOf(r.log[k])
      /\ Len(r.result.errors) = Cardinality(FailedEntries(r, RecordOps \cup {"fetch"}))
      /\ r.result.success = (FailedEntries(r, RecordOps \cup {"fetch"}) = {})

\* A returned run in which the baseline read and one call of each kind failed.
FailuresInErrorListWitness ==
  \E p \in Procs :
    LET r == run[p] IN
    /\ r.pc = "done"
    /\ \E a, b \in FailedEntries(r, RecordOps) : r.log[a].op # r.log[b].op
    /\ ~r.result.success

\* C8: a failed baseline read gives the run an empty baseline and no error:
\* the whole snapshot is to add, nothing is to update or delete, the error
\* list holds the per-record failures only, and without such a failure the
\* run succeeds.
SoftFailBaseline ==
  \A p \in Procs :
    LET r == run[p] IN
    r.baselineFailed =>
      /\ Diffed(r)
      /\ r.existingCodes = << >>
      /\ r.toAdd = r.apiImoveis
      /\ r.toUpdate = << >>
      /\ r.toDelete = << >>
      /\ Len(r.result.errors) = Cardinality(FailedEntries(r, RecordOps))
      /\ (r.pc = "done" /\ FailedEntries(r, RecordOps) = {}) => r.result.success

\* A run that succeeded although its baseline read failed over active rows.
SoftFailBaselineWitness ==
  \E p \in Procs :
    LET r == run[p] IN
    /\ r.baselineFailed
    /\ r.pc = "done"
    /\ r.result.success
    /\ r.apiImoveis # << >>
    /\ SelectActiveCodes(r.store0) # {}

\* C9: a run whose baseline read failed issues no soft delete and no update
\* and leaves every row it found as it was; its inserts that went through are
\* of codes that had no row, and each insert of a code that had a row failed
\* and has its one message.
BaselineOutageNonCorrupting ==
  \A p \in Procs :
    LET r == run[p] IN
    r.baselineFailed =>
      /\ Entries(r, {"softDelete", "update"}) = {}
      /\ \A c \in DOMAIN r.store0 : c \in DOMAIN store /\ store[c] = r.store0[c]
      /\ \A k \in OkEntries(r, {"insert"}) : r.log[k].code \notin DOMAIN r.store0
      /\ \A k \in Entries(r, {"insert"}) :
           r.log[k].code \in DOMAIN r.store0 => r.log[k].outcome # "ok"
      /\ \A k, m \in OkEntries(r, {"insert"}) : r.log[k].code = r.log[m].code => k = m
      /\ Len(r.result.errors) = Cardinality(FailedEntries(r, {"insert"}))

\* A run with a failed baseline read that inserted a new code and was refused
\* the insert of a code that had a row.
BaselineOutageWitness ==
  \E p \in Procs :
    LET r == run[p] IN
    /\ r.baselineFailed
    /\ r.pc = "done"
    /\ OkEntries(r, {"insert"}) # {}
    /\ \E k \in FailedEntries(r, {"insert"}) :
         /\ r.log[k].outcome = "constraint"
         /\ r.log[k].code \in DOMAIN r.store0
         /\ r.store0[r.log[k].code].ativo

\* C10: no step removes a row, and the step of a soft delete changes the row
\* of its code to ativo = false with the current timestamp and nothing else.
SoftDeleteNeverRemoves ==
  [][/\ DOMAIN store \subseteq DOMAIN store'
     /\ \A p \in Procs : \A c \in DOMAIN store :
          run'[p].log = Append(run[p].log, LogEntry("softDelete", c, "ok")) =>
            store' = [store EXCEPT ![c] = [ativo |-> FALSE,
                                           data_atualizacao |-> CurrentTimestamp]]]_vars

\* A soft-deleted row next to a row that is still active.
SoftDeleteWitness ==
  \E c, d \in DOMAIN store :
    /\ store[c] = [ativo |-> FALSE, data_atualizacao |-> CurrentTimestamp]
    /\ store[d].ativo

\* C11: an insert never overwrites: the step of an insert of a code that has
\* a row (active or not) fails, pushes its message and leaves the store as it
\* was, and the step of an insert that goes through is of a code without a row
\* and adds that one row.
InsertNeverUpserts ==
  [][\A p \in Procs :
       (run[p].pc = "add" /\ run'[p] # run[p]) =>
         LET r == run[p]
             imovel == r.toAdd[r.i]
             code == imovel.CodigoImovel
             e == run'[p].log[Len(run'[p].log)]
         IN  /\ e.op = "insert" /\ e.code = code
             /\ code \in DOMAIN store =>
                  /\ e.outcome # "ok"
                  /\ store' = store
                  /\ run'[p].result.errors = Append(r.result.errors, ErrorMsg("add", code))
                  /\ run'[p].result.added = r.result.added
             /\ e.outcome = "ok" =>
                  /\ code \notin DOMAIN store
                  /\ DOMAIN store' = DOMAIN store \cup {code}
                  /\ \A c \in DOMAIN store : store'[c] = store[c]
                  /\ store'[code] = RowOf(mapImovelToDatabaseValues(imovel))
             /\ e.outcome # "ok" => store' = store]_vars

\* A run that read its baseline, added a new code and was refused the insert
\* of a code whose row is inactive; the row is as the run found it.
InsertRefusedWitness ==
  \E p \in Procs :
    LET r == run[p] IN
    /\ Completed(r)
    /\ ~r.baselineFailed
    /\ OkEntries(r, {"insert"}) # {}
    /\ \E k \in FailedEntries(r, {"insert"}) :
         /\ r.log[k].outcome = "constraint"
         /\ r.log[k].code \in DOMAIN r.store0
         /\ ~r.store0[r.log[k].code].ativo
         /\ store[r.log[k].code] = r.store0[r.log[k].code]

\* ---------------------------------------------------------------- rows removed from outside
\* The table is shared: a row can be removed behind the engine's back by a
\* statement that is not the engine's (DELETE ... WHERE codigo_imovel = c).
PurgeRow(c) ==
  /\ c \in DOMAIN store
  /\ store' = [d \in DOMAIN store \ {c} |-> store[d]]
  /\ UNCHANGED <<run, source, probe>>

NextPurge == Next \/ \E c \in DOMAIN store : PurgeRow(c)

\* The end-to-end scenario, with rows removed at any moment.
InitPurge == Init /\ source = "scenario"

SpecPurge == InitPurge /\ [][NextPurge]_vars

\* C12: the step of an update of a code that has no row changes no row and
\* creates none; it fails only if the connection does, and when it resolves
\* the engine pushes no message and counts the record as updated.
UpdateOfMissingRowIsNoOp ==
  [][\A p \in Procs :
       (/\ run[p].pc = "update"
        /\ run'[p] # run[p]
        /\ run[p].toUpdate[run[p].i].CodigoImovel \notin DOMAIN store) =>
         LET r == run[p]
             e == run'[p].log[Len(run'[p].log)]
         IN  /\ store' = store
             /\ e.op = "update" /\ e.code = r.toUpdate[r.i].CodigoImovel
             /\ e.outcome \in {"ok", "connection"}
             /\ e.outcome = "ok" =>
                  /\ run'[p].result.errors = r.result.errors
                  /\ run'[p].result.updated = r.result.updated + 1]_vars

\* A run that succeeded with both its updates counted although the row of one
\* of them was gone when the statement ran; the code still has no row.
UpdateOfMissingRowWitness ==
  \E p \in Procs :
    LET r == run[p] IN
    /\ Completed(r)
    /\ r.result.success
    /\ r.result.updated = 2
    /\ \E k \in OkEntries(r, {"update"}) :
         r.log[k].code \in r.noRow /\ r.log[k].code \notin DOMAIN store

\* ---------------------------------------------------------------- the apply step as a function
\* The calls of one loop of the apply step; idx numbers the planned calls
\* (soft deletes, then updates, then inserts) whatever the order of the loops.
PhaseCalls(r, ph) ==
  CASE ph = "delete" ->
         [k \in 1..Len(r.toDelete) |->
            [op |-> "softDelete", idx |-> k, arg |-> r.toDelete[k]]]
    [] ph = "update" ->
         [k \in 1..Len(r.toUpdate) |->
            [op |-> "update", idx |-> Len(r.toDelete) + k, arg |-> r.toUpdate[k]]]
    [] ph = "add" ->
         [k \in 1..Len(r.toAdd) |->
            [op |-> "insert", idx |-> Len(r.toDelete) + Len(r.toUpdate) + k,
             arg |-> r.toAdd[k]]]

\* One iteration of a loop: try { await the call; count it } catch { push }.
\* lost holds the planned calls whose connection fails.
ApplyCall(acc, call, lost) ==
  IF call.idx \in lost
    THEN [acc EXCEPT !.failed = @ \cup {call.idx}]
  ELSE IF call.op = "softDelete"
    THEN [acc EXCEPT !.store = SoftDeleteRow(@, call.arg), !.deleted = @ + 1]
  ELSE IF call.op = "update"
    THEN [acc EXCEPT !.store = UpdateRow(@, mapImovelToDatabaseValues(call.arg)),
                     !.updated = @ + 1]
  ELSE IF UniqueViolation(acc.store, call.arg.CodigoImovel)
    THEN [acc EXCEPT !.failed = @ \cup {call.idx}]
  ELSE [acc EXCEPT !.store = InsertRow(@, mapImovelToDatabaseValues(call.arg)),
                   !.added = @ + 1]

RECURSIVE ApplyCalls(_, _, _)
ApplyCalls(acc, calls, lost) ==
  IF calls = << >> THEN acc
  ELSE ApplyCalls(ApplyCall(acc, Head(calls), lost), Tail(calls), lost)

\* The orders in which the three loops could run.
PhaseOrders == Perms({"delete", "update", "add"})

\* The apply step of run r on store s with its loops in the given order.
ApplyInOrder(r, s, order, lost) ==
  ApplyCalls([store |-> s, added |-> 0, updated |-> 0, deleted |-> 0, failed |-> {}],
             PhaseCalls(r, order[1]) \o PhaseCalls(r, order[2]) \o PhaseCalls(r, order[3]),
             lost)

\* The planned calls of the run whose connection failed, and those that failed.
CallOutcomes(r) ==
  LET isRecordOp(e) == e.op \in RecordOps IN SelectSeq(r.log, isRecordOp)

LostCalls(r) ==
  {k \in 1..Len(CallOutcomes(r)) : CallOutcomes(r)[k].outcome = "connection"}

FailedCalls(r) ==
  {k \in 1..Len(CallOutcomes(r)) : CallOutcomes(r)[k].outcome # "ok"}

\* C13: with the loops of the apply step in any of the six orders, the same
\* snapshot, baseline and failed connections give the store, the three counts
\* and the set of failed calls of the run as it ran (delete, update, add).
PhaseOrderIrrelevant ==
  \A p \in Procs :
    LET r == run[p] IN
    Completed(r) =>
      \A order \in PhaseOrders :
        LET out == ApplyInOrder(r, r.store0, order, LostCalls(r)) IN
        /\ out.store = store
        /\ out.added = r.result.added
        /\ out.updated = r.result.updated
        /\ out.deleted = r.result.deleted
        /\ out.failed = FailedCalls(r)
        /\ Cardinality(out.failed) = Len(r.result.errors)

\* A completed run with all three loops at work, a failed soft delete, a
\* refused insert and a record that went through.
PhaseOrderWitness ==
  \E p \in Procs :
    LET r == run[p] IN
    /\ Completed(r)
    /\ r.toDelete # << >> /\ r.toUpdate # << >> /\ r.toAdd # << >>
    /\ \E k \in LostCalls(r) : CallOutcomes(r)[k].op = "softDelete"
    /\ OkEntries(r, {"update"}) # {}
    /\ FailedEntries(r, {"insert"}) # {}

\* ---------------------------------------------------------------- concurrent invocations
\* Two requests reach the controller while neither has returned: both
\* invocations of syncDatabase run on the one SyncService and the one table,
\* interleaved at their awaits.
RaceStore == [c \in {"A"} |-> [ativo |-> TRUE, data_atualizacao |-> FeedDate]]

InitConc ==
  /\ run = [p \in Procs |-> FreshRun]
  /\ probe = NoProbe
  /\ source = "race"
  /\ store = RaceStore

\* Each of the two requests invokes syncDatabase once.
StartOnce(p) == run[p].pc = "idle" /\ StartSync(p)

NextConc == \E p \in Procs : StartOnce(p) \/ Step(p)

SpecConc == InitConc /\ [][NextConc]_vars

\* The messages the failed calls of the run's own log ask for, in log order.
OwnMessages(r) ==
  LET failed(e) == e.outcome # "ok" /\ e.op \in RecordOps \cup {"fetch"}
      es == SelectSeq(r.log, failed)
  IN  [k \in 1..Len(es) |-> MessageOf(es[k])]

\* The row a call that went through writes.
RowWritten(r, e) ==
  IF e.op = "softDelete"
    THEN [ativo |-> FALSE, data_atualizacao |-> CurrentTimestamp]
    ELSE RowOf(mapImovelToDatabaseValues(
           IF e.op = "update" THEN r.toUpdate[r.i] ELSE r.toAdd[r.i]))

\* C14: under every interleaving of two invocations, each starts from a fresh
\* SyncResult, the counts and the error list of each are those of the calls of
\* its own log, what one invocation does changes nothing of the other, and a
\* call that goes through leaves its row with the values it wrote (so a row
\* both wrote holds the values of the later write) and every other row as
\* it was.
ConcurrentRunsIsolated ==
  [][/\ \A p \in Procs :
          LET r == run'[p] IN
          /\ r.pc = "fetch" => r.result = FreshResult /\ r.log = << >>
          /\ r.result.added = Cardinality(OkEntries(r, {"insert"}))
          /\ r.result.updated = Cardinality(OkEntries(r, {"update"}))
          /\ r.result.deleted = Cardinality(OkEntries(r, {"softDelete"}))
          /\ r.result.errors = OwnMessages(r)
     /\ \A p, q \in Procs : (p # q /\ run'[p] # run[p]) => run'[q] = run[q]
     /\ \A p \in Procs :
          (run'[p] # run[p] /\ run[p].pc \in {"delete", "update", "add"}) =>
            LET e == run'[p].log[Len(run'[p].log)] IN
            IF e.outcome = "ok"
              THEN /\ store'[e.code] = RowWritten(run[p], e)
                   /\ \A c \in DOMAIN store' \ {e.code} :
                        c \in DOMAIN store /\ store'[c] = store[c]
              ELSE store' = store]_vars

\* Both invocations have returned; each updated the row of A, one to active
\* and one to inactive, each counts its one update and has no error.
ConcurrentWritesWitness ==
  /\ \A p \in Procs :
       /\ Completed(run[p])
       /\ run[p].result = [FreshResult EXCEPT !.success = TRUE, !.updated = 1]
       /\ \E k \in OkEntries(run[p], {"update"}) : run[p].log[k].code = "A"
  /\ run[1].toUpdate[1].Publicar = "1"
  /\ run[2].toUpdate[1].Publicar = "0"
  /\ ~store["A"].ativo

\* C16: every listing a fetch can deliver has a code and a title with text;
\* no run holds a listing, issues a call or leaves a row with an empty code;
\* and the elements the source adapter dropped have no call, no count and no
\* message in the result, which reports success when no call failed.
InvalidRecordsNeverEnter ==
  \A p \in Procs :
    LET r == run[p] IN
    /\ (source = "raw" /\ r.pc = "fetch") =>
         \A parsedData \in Payloads(source) :
           \A imovel \in Range(extractImoveis(parsedData)) :
             imovel["CodigoImovel"] # "" /\ imovel["TituloImovel"] # ""
    /\ \A k \in 1..Len(r.apiImoveis) : r.apiImoveis[k].CodigoImovel # ""
    /\ \A k \in Entries(r, RecordOps) : r.log[k].code # ""
    /\ "" \notin DOMAIN store
    /\ Completed(r) =>
         /\ Len(r.toAdd) + Len(r.toUpdate) = Len(r.apiImoveis)
         /\ Len(Attempted(r)) = Len(r.toDelete) + Len(r.apiImoveis)
         /\ r.result.added + r.result.updated + r.result.deleted + Len(r.result.errors)
              = Len(r.toDelete) + Len(r.apiImoveis)
         /\ FailedEntries(r, RecordOps) = {} => r.result.success

\* A run that succeeded with one record added while the source adapter had
\* dropped an element of the feed.
InvalidRecordDroppedWitness ==
  \E p \in Procs :
    LET r == run[p] IN
    /\ Completed(r)
    /\ r.dropped > 0
    /\ r.result = [FreshResult EXCEPT !.success = TRUE, !.added = 1]
    /\ DOMAIN store = {"A"}

\* ---------------------------------------------------------------- the source adapter on one element
\* A text the feed can carry in each child element.
SampleOf(f) ==
  CASE f = "CodigoImovel" -> "A"
    [] f = "TituloImovel" -> "T"
    [] f \in {"Publicar", "Mobiliado", "ArCondicionado", "Elevador", "QtdVagasCobertas"} -> "1"
    [] f \in {"TipoOferta", "QtdSuites"} -> "2"
    [] f = "UnidadeMetrica" -> "HA"
    [] f = "Cidade" -> "Lorena"
    [] f = "QtdDormitorios" -> "3"
    [] f = "PrecoAluguel" -> "1500"

\* An <Imovel> element with any of the fields of the record type.
SourceElements == {[f \in F |-> SampleOf(f)] : F \in SUBSET ImovelFields}

InitSource ==
  /\ store = EmptyStore
  /\ run = [p \in Procs |-> FreshRun]
  /\ source = "raw"
  /\ \E imovel \in SourceElements : probe = [kind |-> "element", imovel |-> imovel]

\* extractImoveis, the filter: the element is kept or dropped.
FilterElement ==
  /\ probe.kind = "element"
  /\ probe' = [kind |-> IF isValidImovel(probe.imovel) THEN "valid" ELSE "dropped",
               imovel |-> probe.imovel]
  /\ UNCHANGED <<store, run, source>>

\* extractImoveis, the map: the element that was kept is normalized.
NormalizeElement ==
  /\ probe.kind = "valid"
  /\ probe' = [kind |-> "listing", imovel |-> probe.imovel,
               out |-> normalizeImovel(probe.imovel)]
  /\ UNCHANGED <<store, run, source>>

NextSource == FilterElement \/ NormalizeElement

SpecSource == InitSource /\ [][NextSource]_vars

\* The counters and flags of the record type, whose default the spec gives as "0".
CountFlagFields ==
  {"Publicar", "QtdDormitorios", "QtdSuites", "QtdVagasCobertas", "Mobiliado",
   "ArCondicionado", "Elevador"}

\* C15: a listing that leaves the source adapter has every field of the record
\* type, and each field the element lacked holds "" (a string field) or "0"
\* (a counter or flag).
DefaultingInvariant ==
  probe.kind = "listing" =>
    \A f \in ImovelFields :
      /\ f \in DOMAIN probe.out
      /\ ~Truthy(probe.imovel, f) =>
           probe.out[f] = (IF f \in CountFlagFields THEN "0" ELSE "")

\* ---------------------------------------------------------------- values and text
\* What a column receives: null, a string, a number, a boolean or a Date.
\* A number is m / 10^e with no trailing zero in its e decimals.
Null == [kind |-> "null"]
NaN == [kind |-> "nan"]
InvalidDate == [kind |-> "invalid-date"]
Str(text) == [kind |-> "str", text |-> text]
Bool(b) == [kind |-> "bool", b |-> b]
DateOf(y, m, d) == [kind |-> "date", y |-> y, m |-> m, d |-> d]

RECURSIVE Num(_, _)
Num(m, e) == IF e > 0 /\ m % 10 = 0 THEN Num(m \div 10, e - 1)
                                    ELSE [kind |-> "num", m |-> m, e |-> e]

DigitChars == "0123456789"
IsDigit(ch) == \E k \in 1..10 : SubSeq(DigitChars, k, k) = ch
DigitValue(ch) == (CHOOSE k \in 1..10 : SubSeq(DigitChars, k, k) = ch) - 1

\* The number of leading decimal digits of s, and the natural they spell.
RECURSIVE DigitRun(_)
DigitRun(s) == IF s = "" \/ ~IsDigit(Head(s)) THEN 0 ELSE 1 + DigitRun(Tail(s))

RECURSIVE NatOf(_)
NatOf(s) ==
  IF s = "" THEN 0
  ELSE 10 * NatOf(SubSeq(s, 1, Len(s) - 1)) + DigitValue(SubSeq(s, Len(s), Len(s)))

Unsigned(s) == IF s # "" /\ Head(s) \in {"-", "+"} THEN Tail(s) ELSE s
SignOf(s) == IF s # "" /\ Head(s) = "-" THEN -1 ELSE 1

\* parseInt(value): the longest prefix sign-digits, NaN without a digit.
\* (The texts of the feed are trimmed and carry no radix prefix.)
parseInt(s) ==
  LET n == DigitRun(Unsigned(s))
  IN  IF n = 0 THEN NaN ELSE Num(SignOf(s) * NatOf(SubSeq(Unsigned(s), 1, n)), 0)

\* parseFloat(value): the longest prefix sign-digits[.digits], NaN without a
\* digit. (The texts of the feed carry no exponent.)
parseFloat(s) ==
  LET body == Unsigned(s)
      n == DigitRun(body)
      rest == SubSeq(body, n + 1, Len(body))
      f == IF rest # "" /\ Head(rest) = "." THEN DigitRun(Tail(rest)) ELSE 0
  IN  IF n = 0 /\ f = 0 THEN NaN
      ELSE Num(SignOf(s) * NatOf(SubSeq(body, 1, n) \o SubSeq(rest, 2, f + 1)), f)

\* String.prototype.toLowerCase on the letters of the feed.
UpperChars == "ABCDEFGHIJKLMNOPQRSTUVWXYZÃÉ"
LowerChars == "abcdefghijklmnopqrstuvwxyzãé"

LowerOf(ch) ==
  IF \E k \in 1..Len(UpperChars) : SubSeq(UpperChars, k, k) = ch
    THEN LET k == CHOOSE j \in 1..Len(UpperChars) : SubSeq(UpperChars, j, j) = ch
         IN  SubSeq(LowerChars, k, k)
    ELSE ch

RECURSIVE toLowerCase(_)
toLowerCase(s) == IF s = "" THEN "" ELSE LowerOf(Head(s)) \o toLowerCase(Tail(s))

\* value.split('/'): the texts between the separators.
RECURSIVE SplitFrom(_, _, _)
SplitFrom(s, sep, part) ==
  IF s = "" THEN <<part>>
  ELSE IF Head(s) = sep THEN <<part>> \o SplitFrom(Tail(s), sep, "")
  ELSE SplitFrom(Tail(s), sep, part \o Head(s))

Split(s, sep) == SplitFrom(s, sep, "")

\* parts.join(sep)
RECURSIVE Join(_, _)
Join(parts, sep) ==
  IF parts = << >> THEN ""
  ELSE IF Len(parts) = 1 THEN parts[1]
  ELSE parts[1] \o sep \o Join(Tail(parts), sep)

\* new Date(year, monthIndex, day) on the results of parseInt. (Days and
\* months out of range, which the constructor rolls over, are not among the
\* texts of the model.)
NewDate(year, monthIndex, day) ==
  IF NaN \in {year, monthIndex, day} THEN InvalidDate
  ELSE DateOf(year.m, monthIndex.m + 1, day.m)

Minus1(n) == IF n = NaN THEN NaN ELSE Num(n.m - 1, 0)

\* new Date(value) on a text: a date for YYYY-MM-DD, alone or followed by a
\* time, and Invalid Date for the other texts of the model. The time of day
\* is left out of the value.
NewDateFromString(s) ==
  IF /\ Len(s) >= 10
     /\ DigitRun(s) = 4
     /\ SubSeq(s, 5, 5) = "-" /\ DigitRun(SubSeq(s, 6, 7)) = 2
     /\ SubSeq(s, 8, 8) = "-" /\ DigitRun(SubSeq(s, 9, 10)) = 2
     /\ (Len(s) = 10 \/ SubSeq(s, 11, 11) = "T")
     /\ NatOf(SubSeq(s, 6, 7)) \in 1..12
     /\ NatOf(SubSeq(s, 9, 10)) \in 1..31
    THEN DateOf(NatOf(SubSeq(s, 1, 4)), NatOf(SubSeq(s, 6, 7)), NatOf(SubSeq(s, 9, 10)))
    ELSE InvalidDate

\* ---------------------------------------------------------------- store mapping, all columns
\* imovel.X || fallback, and X || null.
OrElse(imovel, f, fallback) == IF Truthy(imovel, f) THEN imovel[f] ELSE fallback
OrNull(text) == IF text = "" THEN Null ELSE Str(text)

\* Variant of AddressParts: a segment is pushed whether it has text or not.
AddressPartsKeepsEmpty(imovel) ==
  <<imovel["Endereco"], imovel["Numero"], imovel["ComplementoEndereco"], imovel["Bairro"],
    imovel["Cidade"], imovel["Estado"], "CEP: " \o imovel["CEP"]>>

\* addressParts of DatabaseService.buildCompleteAddress.
AddressParts(imovel) ==
  LET part(f, prefix) == IF imovel[f] # "" THEN <<prefix \o imovel[f]>> ELSE << >>
  IN  part("Endereco", "") \o part("Numero", "") \o part("ComplementoEndereco", "")
        \o part("Bairro", "") \o part("Cidade", "") \o part("Estado", "")
        \o part("CEP", "CEP: ")

buildCompleteAddress(imovel) == Join(AddressParts(imovel), ", ")

\* Variant of mapTipoOferta: an unknown code is returned as it came.
mapTipoOfertaPassesThrough(tipoOferta) ==
  CASE tipoOferta = "1" -> "Venda"
    [] tipoOferta = "2" -> "Aluguel"
    [] tipoOferta = "3" -> "Venda/Aluguel"
    [] OTHER -> tipoOferta

mapTipoOferta(tipoOferta) ==
  CASE tipoOferta = "1" -> "Venda"
    [] tipoOferta = "2" -> "Aluguel"
    [] tipoOferta = "3" -> "Venda/Aluguel"
    [] OTHER -> "Venda"

mapFinalidade(finalidade) ==
  LET lower == toLowerCase(finalidade) IN
  CASE lower = "residencial" -> "Residencial"
    [] lower = "comercial" -> "Comercial"
    [] lower = "industrial" -> "Industrial"
    [] lower = "rural" -> "Rural"
    [] OTHER -> IF finalidade # "" THEN finalidade ELSE "Residencial"

mapPadraoImovel(padraoImovel) ==
  IF padraoImovel = "" \/ padraoImovel = "Não informado" THEN Null
  ELSE LET lower == toLowerCase(padraoImovel) IN
       CASE lower \in {"alto padrão", "alto padrao"} -> Str("Alto Padrão")
         [] lower \in {"médio padrão", "medio padrao"} -> Str("Médio Padrão")
         [] lower \in {"padrão", "padrao"} -> Str("Padrão")
         [] OTHER -> Str(padraoImovel)

mapPadraoLocalizacao(padraoLocalizacao) ==
  IF padraoLocalizacao = "" \/ padraoLocalizacao = "Não informado" THEN Null
  ELSE LET lower == toLowerCase(padraoLocalizacao) IN
       CASE lower \in {"alto padrão", "alto padrao"} -> Str("Alto Padrão")
         [] lower \in {"médio padrão", "medio padrao"} -> Str("Médio Padrão")
         [] lower \in {"padrão", "padrao"} -> Str("Padrão")
         [] OTHER -> Str(padraoLocalizacao)

\* Variant of parseNumeric: only the empty text is absent.
parseNumericKeepsZero(value) ==
  IF value = "" THEN Null
  ELSE LET num == parseFloat(value) IN IF num = NaN THEN Null ELSE num

parseNumeric(value) ==
  IF value = "" \/ value = "0" \/ value = "0.00" THEN Null
  ELSE LET num == parseFloat(value) IN IF num = NaN THEN Null ELSE num

parseInteger(value) ==
  IF value = "" \/ value = "0" THEN Null
  ELSE LET num == parseInt(value) IN IF num = NaN THEN Null ELSE num

parseTimestamp(value) ==
  IF value = "" THEN Null
  ELSE LET parts == Split(value, "/") IN
       IF Len(parts) = 3
         THEN NewDate(parseInt(parts[3]), Minus1(parseInt(parts[2])), parseInt(parts[1]))
         ELSE LET date == NewDateFromString(value)
              IN  IF date = InvalidDate THEN Null ELSE date

\* The 29 values of mapImovelToDatabaseValues, by column.
DatabaseColumns(imovel) ==
  [codigo_imovel |-> Str(imovel.CodigoImovel),
   finalidade |-> Str(mapFinalidade(imovel.Finalidade)),
   tipo_imovel |-> Str(imovel.TipoImovel),
   cidade |-> Str(imovel.Cidade),
   tipo_oferta |-> Str(mapTipoOferta(imovel.TipoOferta)),
   preco_venda |-> parseNumeric(imovel.PrecoVenda),
   preco_aluguel |-> parseNumeric(OrElse(imovel, "PrecoAluguel", "0")),
   qtd_dormitorios |-> parseInteger(imovel.QtdDormitorios),
   qtd_suites |-> parseInteger(OrElse(imovel, "QtdSuites", "0")),
   area_util |-> parseNumeric(imovel.AreaUtil),
   bairro |-> OrNull(imovel.Bairro),
   qtd_vagas_cobertas |-> parseInteger(OrElse(imovel, "QtdVagasCobertas", "0")),
   qtd_banheiros |-> parseInteger(imovel.QtdBanheiros),
   padrao_imovel |-> mapPadraoImovel(imovel.PadraoImovel),
   padrao_localizacao |-> mapPadraoLocalizacao(imovel.PadraoLocalizacao),
   ano_construcao |-> parseInteger(imovel.AnoConstrucao),
   mobiliado |-> Bool(parseBoolean(OrElse(imovel, "Mobiliado", "0"))),
   ar_condicionado |-> Bool(parseBoolean(OrElse(imovel, "ArCondicionado", "0"))),
   piscina |-> Bool(parseBoolean(imovel.Piscina)),
   elevador |-> Bool(parseBoolean(OrElse(imovel, "Elevador", "0"))),
   estado |-> OrNull(imovel.Estado),
   endereco |-> OrNull(buildCompleteAddress(imovel)),
   titulo_imovel |-> OrNull(imovel.TituloImovel),
   preco_condominio |-> parseNumeric(imovel.PrecoCondominio),
   observacoes |-> OrNull(imovel.Observacao),
   ativo |-> Bool(parseBoolean(imovel.Publicar)),
   data_cadastro |-> parseTimestamp(imovel.DataCadastro),
   data_atualizacao |-> parseTimestamp(imovel.DataAtualizacao),
   url_site |-> OrNull(imovel.URLGaiaSite)]

\* ---------------------------------------------------------------- statement formatter
\* The text of each value of the VALUES list of generateInsertStatement.
RECURSIVE NatToString(_)
NatToString(n) ==
  IF n < 10 THEN SubSeq(DigitChars, n + 1, n + 1)
  ELSE NatToString(n \div 10) \o SubSeq(DigitChars, (n % 10) + 1, (n % 10) + 1)

RECURSIVE Power10(_)
Power10(e) == IF e = 0 THEN 1 ELSE 10 * Power10(e - 1)

RECURSIVE PadLeft(_, _)
PadLeft(s, width) == IF Len(s) >= width THEN s ELSE PadLeft("0" \o s, width)

\* Number.prototype.toString for a number of the model.
NumberToString(num) ==
  LET abs == IF num.m < 0 THEN -num.m ELSE num.m
      whole == NatToString(abs \div Power10(num.e))
      decimals == IF num.e = 0 THEN ""
                  ELSE "." \o PadLeft(NatToString(abs % Power10(num.e)), num.e)
  IN  (IF num.m < 0 THEN "-" ELSE "") \o whole \o decimals

RECURSIVE escapeSqlString(_)
escapeSqlString(value) ==
  IF value = "" THEN ""
  ELSE (IF Head(value) = "'" THEN "''" ELSE Head(value)) \o escapeSqlString(Tail(value))

\* '${this.escapeSqlString(x)}', and x ? '...' : 'NULL'
Quoted(text) == "'" \o escapeSqlString(text) \o "'"
QuotedOrNull(text) == IF text # "" THEN Quoted(text) ELSE "NULL"

\* addressParts of SqlGeneratorService.buildCompleteAddress.
SqlAddressParts(imovel) ==
  LET part(f, prefix) == IF imovel[f] # "" THEN <<prefix \o imovel[f]>> ELSE << >>
  IN  part("Endereco", "") \o part("Numero", "") \o part("ComplementoEndereco", "")
        \o part("Bairro", "") \o part("Cidade", "") \o part("Estado", "")
        \o part("CEP", "CEP: ")

SqlBuildCompleteAddress(imovel) == Join(SqlAddressParts(imovel), ", ")

SqlMapTipoOferta(tipoOferta) ==
  CASE tipoOferta = "1" -> "Venda"
    [] tipoOferta = "2" -> "Aluguel"
    [] tipoOferta = "3" -> "Venda/Aluguel"
    [] OTHER -> "Venda"

SqlMapFinalidade(finalidade) ==
  LET lower == toLowerCase(finalidade) IN
  CASE lower = "residencial" -> "Residencial"
    [] lower = "comercial" -> "Comercial"
    [] lower = "industrial" -> "Industrial"
    [] lower = "rural" -> "Rural"
    [] OTHER -> IF finalidade # "" THEN finalidade ELSE "Residencial"

\* The formatter's mapPadraoImovel and mapPadraoLocalizacao; "" stands for null.
SqlMapPadraoImovel(padraoImovel) ==
  IF padraoImovel = "" \/ padraoImovel = "Não informado" THEN ""
  ELSE LET lower == toLowerCase(padraoImovel) IN
       CASE lower \in {"alto padrão", "alto padrao"} -> "Alto Padrão"
         [] lower \in {"médio padrão", "medio padrao"} -> "Médio Padrão"
         [] lower \in {"padrão", "padrao"} -> "Padrão"
         [] OTHER -> padraoImovel

SqlMapPadraoLocalizacao(padraoLocalizacao) ==
  IF padraoLocalizacao = "" \/ padraoLocalizacao = "Não informado" THEN ""
  ELSE LET lower == toLowerCase(padraoLocalizacao) IN
       CASE lower \in {"alto padrão", "alto padrao"} -> "Alto Padrão"
         [] lower \in {"médio padrão", "medio padrao"} -> "Médio Padrão"
         [] lower \in {"padrão", "padrao"} -> "Padrão"
         [] OTHER -> padraoLocalizacao

SqlParseNumeric(value) ==
  IF value = "" \/ value = "0" \/ value = "0.00" THEN "NULL"
  ELSE LET num == parseFloat(value) IN IF num = NaN THEN "NULL" ELSE NumberToString(num)

SqlParseInteger(value) ==
  IF value = "" \/ value = "0" THEN "NULL"
  ELSE LET num == parseInt(value) IN IF num = NaN THEN "NULL" ELSE NumberToString(num)

SqlParseBoolean(value) == IF value = "1" \/ value = "true" THEN "true" ELSE "false"

SqlParseTimestamp(value) ==
  IF value = "" THEN "NULL"
  ELSE LET parts == Split(value, "/") IN
       IF Len(parts) = 3
         THEN "'" \o parts[3] \o "-" \o parts[2] \o "-" \o parts[1] \o "'"
         ELSE "'" \o value \o "'"

SqlColumns(imovel) ==
  [codigo_imovel |-> Quoted(imovel.CodigoImovel),
   finalidade |-> QuotedOrNull(SqlMapFinalidade(imovel.Finalidade)),
   tipo_imovel |-> Quoted(imovel.TipoImovel),
   cidade |-> Quoted(imovel.Cidade),
   tipo_oferta |-> Quoted(SqlMapTipoOferta(imovel.TipoOferta)),
   preco_venda |-> SqlParseNumeric(imovel.PrecoVenda),
   preco_aluguel |-> SqlParseNumeric(OrElse(imovel, "PrecoAluguel", "0")),
   qtd_dormitorios |-> SqlParseInteger(imovel.QtdDormitorios),
   qtd_suites |-> SqlParseInteger(OrElse(imovel, "QtdSuites", "0")),
   area_util |-> SqlParseNumeric(imovel.AreaUtil),
   bairro |-> QuotedOrNull(imovel.Bairro),
   qtd_vagas_cobertas |-> SqlParseInteger(OrElse(imovel, "QtdVagasCobertas", "0")),
   qtd_banheiros |-> SqlParseInteger(imovel.QtdBanheiros),
   padrao_imovel |-> QuotedOrNull(SqlMapPadraoImovel(imovel.PadraoImovel)),
   padrao_localizacao |-> QuotedOrNull(SqlMapPadraoLocalizacao(imovel.PadraoLocalizacao)),
   ano_construcao |-> SqlParseInteger(imovel.AnoConstrucao),
   mobiliado |-> SqlParseBoolean(OrElse(imovel, "Mobiliado", "0")),
   ar_condicionado |-> SqlParseBoolean(OrElse(imovel, "ArCondicionado", "0")),
   piscina |-> SqlParseBoolean(imovel.Piscina),
   elevador |-> SqlParseBoolean(OrElse(imovel, "Elevador", "0")),
   estado |-> QuotedOrNull(imovel.Estado),
   endereco |-> QuotedOrNull(SqlBuildCompleteAddress(imovel)),
   titulo_imovel |-> QuotedOrNull(imovel.TituloImovel),
   preco_condominio |-> SqlParseNumeric(imovel.PrecoCondominio),
   observacoes |-> QuotedOrNull(imovel.Observacao),
   ativo |-> SqlParseBoolean(imovel.Publicar),
   data_cadastro |-> SqlParseTimestamp(imovel.DataCadastro),
   data_atualizacao |-> SqlParseTimestamp(imovel.DataAtualizacao),
   url_site |-> QuotedOrNull(imovel.URLGaiaSite)]

\* ---------------------------------------------------------------- the two mappers on one listing
\* A listing as normalizeImovel returns it (the fields the mappers read).
BaseImovel ==
  [CodigoImovel |-> "A", Finalidade |-> "Residencial", TipoImovel |-> "Casa",
   Cidade |-> "Lorena", TipoOferta |-> "1", PrecoVenda |-> "350000.00",
   QtdDormitorios |-> "3", AreaUtil |-> "120.5", Bairro |-> "Centro",
   QtdBanheiros |-> "0", PadraoImovel |-> "Alto Padrão",
   PadraoLocalizacao |-> "Médio Padrão", AnoConstrucao |-> "2010", Piscina |-> "1",
   Estado |-> "SP", Endereco |-> "Rua Um", Numero |-> "10",
   ComplementoEndereco |-> "", CEP |-> "12600-000",
   TituloImovel |-> "Casa no centro", PrecoCondominio |-> "0", Observacao |-> "",
   Publicar |-> "1", DataCadastro |-> "24/08/2025",
   DataAtualizacao |-> "2025-08-27T18:41:14", URLGaiaSite |-> ""]

NumericFields == {"PrecoVenda", "PrecoAluguel", "AreaUtil", "PrecoCondominio"}
IntegerFields ==
  {"QtdDormitorios", "QtdSuites", "QtdVagasCobertas", "QtdBanheiros", "AnoConstrucao"}
BooleanFields == {"Mobiliado", "ArCondicionado", "Piscina", "Elevador", "Publicar"}
DateFields == {"DataCadastro", "DataAtualizacao"}

\* The texts a field takes in the model.
TextsOf(f) ==
  CASE f \in NumericFields ->
         {"", "0", "0.00", "0.0", "00", "1500", "1500.50", "abc", "12abc", "-5"}
    [] f \in IntegerFields -> {"", "0", "00", "3", "3.7", "abc"}
    [] f \in BooleanFields -> {"", "0", "1", "true", "TRUE", "false", "sim", "2"}
    [] f \in DateFields ->
         {"", "24/08/2025", "1/2/2025", "2025-08-27", "2025-08-27T18:41:14",
          "sem data", "a/b/c", "d'agosto", "1/2/2025'"}
    [] f = "TipoOferta" -> {"", "1", "2", "3", "4", "Permuta"}
    [] f = "Finalidade" ->
         {"", "residencial", "COMERCIAL", "Industrial", "rural", "Temporada"}
    [] f \in {"PadraoImovel", "PadraoLocalizacao"} ->
         {"", "Não informado", "não informado", "ALTO PADRÃO", "alto padrao",
          "Médio Padrão", "MEDIO PADRAO", "padrão", "Padrao", "Luxo"}
    [] OTHER -> {"", "Centro", "O'Brien"}

\* The fields the address is assembled from, and an address with all of them.
AddressFields ==
  {"Endereco", "Numero", "ComplementoEndereco", "Bairro", "Cidade", "Estado", "CEP"}

FullAddress ==
  [Endereco |-> "Rua A", Numero |-> "10", ComplementoEndereco |-> "Apto 2",
   Bairro |-> "Centro", Cidade |-> "X", Estado |-> "SP", CEP |-> "00000"]

\* The base listing with any of the address fields empty and the others as
\* in the full address.
AddressInputs ==
  {[f \in DOMAIN BaseImovel |->
      IF f \notin AddressFields THEN BaseImovel[f]
      ELSE IF f \in F THEN FullAddress[f] ELSE ""] : F \in SUBSET AddressFields}

\* The base listing with one field set to one of its texts (an optional
\* field is there only when it is the one set), and the address inputs.
MappingInputs ==
  UNION {{[BaseImovel EXCEPT ![f] = t] : t \in TextsOf(f)} : f \in DOMAIN BaseImovel}
  \cup UNION {{(f :> t) @@ BaseImovel : t \in TextsOf(f)} : f \in OptionalFields}
  \cup AddressInputs

InitMapping ==
  /\ store = EmptyStore
  /\ run = [p \in Procs |-> FreshRun]
  /\ source = "open"
  /\ \E imovel \in MappingInputs : probe = [kind |-> "imovel", imovel |-> imovel]

\* DatabaseService maps the listing to the values of a statement.
MapToDatabase ==
  /\ probe.kind = "imovel"
  /\ probe' = [kind |-> "mapped", imovel |-> probe.imovel,
               values |-> DatabaseColumns(probe.imovel)]
  /\ UNCHANGED <<store, run, source>>

\* SqlGeneratorService renders the same listing.
GenerateInsert ==
  /\ probe.kind = "mapped"
  /\ probe' = [kind |-> "rendered", imovel |-> probe.imovel, values |-> probe.values,
               sql |-> SqlColumns(probe.imovel)]
  /\ UNCHANGED <<store, run, source>>

NextMapping == MapToDatabase \/ GenerateInsert

SpecMapping == InitMapping /\ [][NextMapping]_vars

\* The field a column is parsed from, for the numeric, the integer and the
\* boolean columns.
NumericColumns ==
  [preco_venda |-> "PrecoVenda", preco_aluguel |-> "PrecoAluguel",
   area_util |-> "AreaUtil", preco_condominio |-> "PrecoCondominio"]

IntegerColumns ==
  [qtd_dormitorios |-> "QtdDormitorios", qtd_suites |-> "QtdSuites",
   qtd_vagas_cobertas |-> "QtdVagasCobertas", qtd_banheiros |-> "QtdBanheiros",
   ano_construcao |-> "AnoConstrucao"]

BooleanColumns ==
  [mobiliado |-> "Mobiliado", ar_condicionado |-> "ArCondicionado",
   piscina |-> "Piscina", elevador |-> "Elevador", ativo |-> "Publicar"]

\* The listing has field f with one of the texts.
HasText(imovel, f, texts) == f \in DOMAIN imovel /\ imovel[f] \in texts

\* C17: a price or area of "0" or "0.00" and a counter of "0" give null in
\* the store mapping and the NULL literal in the formatter, never zero.
ZeroValueCoercion ==
  probe.kind = "rendered" =>
    /\ \A col \in DOMAIN NumericColumns :
         HasText(probe.imovel, NumericColumns[col], {"0", "0.00"}) =>
           /\ probe.values[col] = Null /\ probe.values[col] # Num(0, 0)
           /\ probe.sql[col] = "NULL" /\ probe.sql[col] # "0"
    /\ \A col \in DOMAIN IntegerColumns :
         HasText(probe.imovel, IntegerColumns[col], {"0"}) =>
           /\ probe.values[col] = Null /\ probe.values[col] # Num(0, 0)
           /\ probe.sql[col] = "NULL" /\ probe.sql[col] # "0"

\* A listing with sale price "0.00", fee "0" and bathrooms "0", mapped and
\* rendered.
ZeroValueWitness ==
  /\ probe.kind = "rendered"
  /\ probe.imovel.PrecoVenda = "0.00"
  /\ probe.imovel.PrecoCondominio = "0"
  /\ probe.imovel.QtdBanheiros = "0"
  /\ probe.values.preco_venda = Null /\ probe.sql.preco_venda = "NULL"
  /\ probe.values.qtd_banheiros = Null /\ probe.sql.qtd_banheiros = "NULL"

\* C18 as stated: a flag of "1" gives true and every other text gives false,
\* in the store mapping and in the formatter.
OnlyOneIsTrue ==
  probe.kind = "rendered" =>
    \A col \in DOMAIN BooleanColumns :
      LET isOne == HasText(probe.imovel, BooleanColumns[col], {"1"}) IN
      /\ probe.values[col] = Bool(isOne)
      /\ probe.sql[col] = (IF isOne THEN "true" ELSE "false")

\* C18 as amended: a flag of "1" or "true" gives true and every other text,
\* "0", the empty text and a missing flag among them, gives false, in the
\* store mapping and in the formatter.
BooleanCoercion ==
  probe.kind = "rendered" =>
    \A col \in DOMAIN BooleanColumns :
      LET isTrue == HasText(probe.imovel, BooleanColumns[col], {"1", "true"}) IN
      /\ probe.values[col] = Bool(isTrue)
      /\ probe.sql[col] = (IF isTrue THEN "true" ELSE "false")

\* A listing whose pool flag is the text "true", mapped and rendered as true.
BooleanTrueWitness ==
  /\ probe.kind = "rendered"
  /\ probe.imovel.Piscina = "true"
  /\ probe.values.piscina = Bool(TRUE)
  /\ probe.sql.piscina = "true"

\* The display strings of the lookup tables, for the texts of the model that
\* a table recognizes (whatever their case).
OfferDisplay == [t \in {"1", "2", "3"} |->
  CASE t = "1" -> "Venda" [] t = "2" -> "Aluguel" [] t = "3" -> "Venda/Aluguel"]

FinalidadeDisplay ==
  [t \in {"Residencial", "residencial", "COMERCIAL", "Industrial", "rural"} |->
     CASE t \in {"Residencial", "residencial"} -> "Residencial"
       [] t = "COMERCIAL" -> "Comercial"
       [] t = "Industrial" -> "Industrial"
       [] t = "rural" -> "Rural"]

PadraoDisplay ==
  [t \in {"Alto Padrão", "ALTO PADRÃO", "alto padrao", "Médio Padrão", "MEDIO PADRAO",
          "padrão", "Padrao"} |->
     CASE t \in {"Alto Padrão", "ALTO PADRÃO", "alto padrao"} -> "Alto Padrão"
       [] t \in {"Médio Padrão", "MEDIO PADRAO"} -> "Médio Padrão"
       [] t \in {"padrão", "Padrao"} -> "Padrão"]

Sentinel == "Não informado"

\* The literal of a value: NULL, a quoted text with its quotes doubled, the
\* decimal of a number, true or false.
LiteralOf(value) ==
  CASE value = Null -> "NULL"
    [] value.kind = "str" -> Quoted(value.text)
    [] value.kind = "num" -> NumberToString(value)
    [] value.kind = "bool" -> IF value.b THEN "true" ELSE "false"

\* The column holds the value in the store mapping and its literal in the
\* formatter.
BothGive(col, value) == probe.values[col] = value /\ probe.sql[col] = LiteralOf(value)

\* C19 as stated: each lookup table gives the display string of a value it
\* knows and returns every other value unchanged; the two standard fields
\* match whatever the case and give absent for the sentinel.
LookupPassesUnknownThrough ==
  probe.kind = "rendered" =>
    LET pass(table, t) == IF t \in DOMAIN table THEN table[t] ELSE t
        standard(t) == IF t = Sentinel THEN Null ELSE Str(pass(PadraoDisplay, t))
    IN  /\ BothGive("tipo_oferta", Str(pass(OfferDisplay, probe.imovel.TipoOferta)))
        /\ BothGive("finalidade", Str(pass(FinalidadeDisplay, probe.imovel.Finalidade)))
        /\ BothGive("padrao_imovel", standard(probe.imovel.PadraoImovel))
        /\ BothGive("padrao_localizacao", standard(probe.imovel.PadraoLocalizacao))

\* C19 as amended: offer-type gives the display string of "1", "2" and "3"
\* and "Venda" for every other value; finalidade gives the display string of
\* a category it knows (whatever the case), "Residencial" for the empty text
\* and every other value unchanged; each standard field gives absent for the
\* empty text and for the sentinel as spelled, the display string of a
\* standard it knows (whatever the case) and every other value unchanged.
LookupTables ==
  probe.kind = "rendered" =>
    LET pass(table, t) == IF t \in DOMAIN table THEN table[t] ELSE t
        offer(t) == IF t \in DOMAIN OfferDisplay THEN OfferDisplay[t] ELSE "Venda"
        category(t) == IF t = "" THEN "Residencial" ELSE pass(FinalidadeDisplay, t)
        standard(t) == IF t \in {"", Sentinel} THEN Null ELSE Str(pass(PadraoDisplay, t))
    IN  /\ BothGive("tipo_oferta", Str(offer(probe.imovel.TipoOferta)))
        /\ BothGive("finalidade", Str(category(probe.imovel.Finalidade)))
        /\ BothGive("padrao_imovel", standard(probe.imovel.PadraoImovel))
        /\ BothGive("padrao_localizacao", standard(probe.imovel.PadraoLocalizacao))

\* A listing with the unknown offer-type "4", stored and rendered as "Venda".
UnknownOfferWitness ==
  /\ probe.kind = "rendered"
  /\ probe.imovel.TipoOferta = "4"
  /\ probe.values.tipo_oferta = Str("Venda")
  /\ probe.sql.tipo_oferta = "'Venda'"

\* The value a literal of the formatter denotes in a column that holds a
\* date: a quoted year-month-day is that day, any other quoted text no date.
DateOfLiteral(text) ==
  LET inner == SubSeq(text, 2, Len(text) - 1)
      day == SubSeq(inner, 1, 10)
      parts == Split(IF Len(inner) > 10 /\ SubSeq(inner, 11, 11) = "T" THEN day ELSE inner,
                     "-")
      isNat(s) == s # "" /\ DigitRun(s) = Len(s)
  IN  IF Len(parts) = 3 /\ \A k \in 1..3 : isNat(parts[k])
        THEN DateOf(NatOf(parts[1]), NatOf(parts[2]), NatOf(parts[3]))
        ELSE InvalidDate

\* C20: on each of the 29 columns the formatter renders NULL exactly when the
\* store mapping gives null, and otherwise the literal of the value the store
\* mapping gives (for the two date columns, a literal of the same day).
FormatterMatchesStore ==
  probe.kind = "rendered" =>
    \A col \in DOMAIN probe.values :
      LET value == probe.values[col]
          text == probe.sql[col]
      IN  /\ (value = Null) <=> (text = "NULL")
          /\ value # Null =>
               IF col \in {"data_cadastro", "data_atualizacao"}
                 THEN DateOfLiteral(text) = value
                 ELSE text = LiteralOf(value)

\* The columns whose literal the formatter writes between quotes.
StringColumns ==
  {"codigo_imovel", "finalidade", "tipo_imovel", "cidade", "tipo_oferta", "bairro",
   "padrao_imovel", "padrao_localizacao", "estado", "endereco", "titulo_imovel",
   "observacoes", "url_site", "data_cadastro", "data_atualizacao"}

\* Every quote of the text is one of a pair of adjacent quotes.
RECURSIVE QuotesPaired(_)
QuotesPaired(s) ==
  IF s = "" THEN TRUE
  ELSE IF Head(s) = "'"
    THEN Len(s) >= 2 /\ Head(Tail(s)) = "'" /\ QuotesPaired(Tail(Tail(s)))
  ELSE QuotesPaired(Tail(s))

\* The text is a literal that ends where it was meant to: a quote, a body
\* whose quotes are all doubled, a quote.
ClosedLiteral(text) ==
  /\ Len(text) >= 2
  /\ Head(text) = "'"
  /\ SubSeq(text, Len(text), Len(text)) = "'"
  /\ QuotesPaired(SubSeq(text, 2, Len(text) - 1))

\* C21: in the rendered statement every string-valued column, the two date
\* columns among them, is NULL or a quoted literal in which every quote of the
\* field's text is doubled, so that no text ends its literal early.
QuoteEscapingEverywhere ==
  probe.kind = "rendered" =>
    \A col \in StringColumns : probe.sql[col] = "NULL" \/ ClosedLiteral(probe.sql[col])

\* The field a date column is parsed from.
DateColumns == [data_cadastro |-> "DataCadastro", data_atualizacao |-> "DataAtualizacao"]

\* The text is a run of digits; the text is day/month/year in digits; the
\* text is an ISO date, alone or followed by a time.
IsNumeral(s) == s # "" /\ DigitRun(s) = Len(s)

IsDayMonthYear(s) == Len(Split(s, "/")) = 3 /\ \A k \in 1..3 : IsNumeral(Split(s, "/")[k])

IsIsoDate(s) ==
  /\ Len(s) >= 10
  /\ LET parts == Split(SubSeq(s, 1, 10), "-")
     IN  /\ Len(parts) = 3
         /\ \A k \in 1..3 : IsNumeral(parts[k])
         /\ Len(parts[1]) = 4 /\ Len(parts[2]) = 2 /\ Len(parts[3]) = 2
  /\ (Len(s) = 10 \/ SubSeq(s, 11, 11) = "T")

\* The text has three slash-separated parts none of which starts a number.
IsSlashedNonNumber(s) ==
  Len(Split(s, "/")) = 3 /\ \A k \in 1..3 : DigitRun(Unsigned(Split(s, "/")[k])) = 0

\* C22: in the store mapping a date column is never an invalid date: a
\* day/month/year text gives that calendar date, an ISO text the date the
\* generic parser reads, and a text that is neither, a three-part slashed text
\* whose parts are not numbers among them, gives null.
DateCoercion ==
  probe.kind \in {"mapped", "rendered"} =>
    \A col \in DOMAIN DateColumns :
      LET text == probe.imovel[DateColumns[col]]
          value == probe.values[col]
          dmy == Split(text, "/")
          iso == Split(SubSeq(text, 1, 10), "-")
      IN  /\ value # InvalidDate
          /\ IsDayMonthYear(text) => value = DateOf(NatOf(dmy[3]), NatOf(dmy[2]), NatOf(dmy[1]))
          /\ IsIsoDate(text) => value = DateOf(NatOf(iso[1]), NatOf(iso[2]), NatOf(iso[3]))
          /\ (IsSlashedNonNumber(text) \/ (Len(dmy) # 3 /\ ~IsIsoDate(text))) => value = Null

\* The text t occurs in s.
RECURSIVE Contains(_, _)
Contains(s, t) ==
  IF Len(s) < Len(t) THEN FALSE
  ELSE SubSeq(s, 1, Len(t)) = t \/ Contains(Tail(s), t)

\* The text of a column of the store mapping ("" for null).
TextOf(value) == IF value = Null THEN "" ELSE value.text

\* The segments of the address in their fixed order, empty ones included.
Segments(imovel) ==
  <<imovel.Endereco, imovel.Numero, imovel.ComplementoEndereco, imovel.Bairro,
    imovel.Cidade, imovel.Estado, IF imovel.CEP = "" THEN "" ELSE "CEP: " \o imovel.CEP>>

\* C23: the address is the non-empty segments among street, number,
\* complement, neighborhood, city, state and "CEP: " + postal code, in that
\* order, joined with ", ": no double comma, no leading or trailing separator,
\* cut at the separators it gives back exactly the non-empty segments; the
\* example of the spec gives "Rua A, 10, Centro, X, SP, CEP: 00000"; and the
\* formatter renders the literal of the same string.
AddressAssembly ==
  probe.kind = "rendered" =>
    LET hasText(seg) == seg # ""
        kept == SelectSeq(Segments(probe.imovel), hasText)
        address == TextOf(probe.values.endereco)
    IN  /\ address = Join(kept, ", ")
        /\ ~Contains(address, ", , ")
        /\ Len(address) >= 2 =>
             SubSeq(address, 1, 2) # ", " /\ SubSeq(address, Len(address) - 1, Len(address)) # ", "
        /\ Len(address) >= 1 => SubSeq(address, Len(address), Len(address)) # ","
        /\ (\A k \in 1..Len(kept) : ~Contains(kept[k], ",")) =>
             Split(address, ",") =
               [k \in 1..Len(kept) |-> IF k = 1 THEN kept[k] ELSE " " \o kept[k]]
               \o (IF kept = << >> THEN <<"">> ELSE << >>)
        /\ probe.sql.endereco = LiteralOf(probe.values.endereco)
        /\ (/\ \A f \in AddressFields \ {"ComplementoEndereco"} :
                 probe.imovel[f] = FullAddress[f]
            /\ probe.imovel.ComplementoEndereco = "")
             => /\ address = "Rua A, 10, Centro, X, SP, CEP: 00000"
                /\ probe.sql.endereco = "'Rua A, 10, Centro, X, SP, CEP: 00000'"

\* The example of the spec, mapped and rendered: the complement is empty and
\* both give the address without it.
AddressExampleWitness ==
  /\ probe.kind = "rendered"
  /\ \A f \in AddressFields \ {"ComplementoEndereco"} : probe.imovel[f] = FullAddress[f]
  /\ probe.imovel.ComplementoEndereco = ""
  /\ probe.values.endereco = Str("Rua A, 10, Centro, X, SP, CEP: 00000")
  /\ probe.sql.endereco = "'Rua A, 10, Centro, X, SP, CEP: 00000'"

\* a is a prefix of b.
IsPrefix(a, b) == Len(a) <= Len(b) /\ SubSeq(b, 1, Len(a)) = a

\* The calls of the run so far are its fetch, then at most one baseline read,
\* then the planned per-record calls in their order, each once and none
\* skipped; nothing follows a failed fetch.
CallsInSequence(r) ==
  /\ \A k \in 1..Len(r.log) :
       /\ r.log[k].op = "fetch" <=> k = 1
       /\ r.log[k].op = "select" <=> k = 2
  /\ r.fetchFailed => Len(r.log) = 1 /\ r.pc = "done"
  /\ IF Diffed(r) THEN IsPrefix(Attempted(r), Planned(r)) ELSE Attempted(r) = << >>
  /\ r.pc \in {"delete", "update", "add"} =>
       /\ Len(Attempted(r)) < Len(Planned(r))
       /\ Planned(r)[Len(Attempted(r)) + 1].op =
            (CASE r.pc = "delete" -> "softDelete" [] r.pc = "update" -> "update"
               [] r.pc = "add" -> "insert")
  /\ r.pc \in {"finalize", "done"} /\ ~r.fetchFailed => Attempted(r) = Planned(r)

\* C24: a step of a run issues one call and has its outcome before the next
\* step: the log grows by that one entry, and the calls of the run are always
\* its fetch, its baseline read and a prefix of the planned per-record calls,
\* so that no call, failed or not, is issued a second time.
NoRetryNoOverlap ==
  [][\A p \in Procs :
       /\ CallsInSequence(run'[p])
       /\ (run'[p] # run[p] /\ run[p].pc \notin {"idle", "done", "finalize"}) =>
            /\ Len(run'[p].log) = Len(run[p].log) + 1
            /\ IsPrefix(run[p].log, run'[p].log)
            /\ run'[p].log[Len(run'[p].log)].outcome \in {"ok", "connection", "constraint"}
       /\ (run'[p] # run[p] /\ run[p].pc = "finalize") => run'[p].log = run[p].log]_vars

\* A returned run whose first per-record call failed once and was followed by
\* the calls of two other records; no later call is of the failed one.
NoRetryWitness ==
  \E p \in Procs :
    LET r == run[p]
        calls == CallOutcomes(r)
    IN  /\ Completed(r)
        /\ Len(calls) >= 3
        /\ calls[1].outcome = "connection"
        /\ \A k \in 2..Len(calls) : calls[k].code # calls[1].code
        /\ Len(r.result.errors) = 1

\* The message of the k-th per-record call of the run, read from the diff:
\* the soft deletes in the order of toDelete, then the updates in the order of
\* toUpdate, then the inserts in the order of toAdd.
MessageOfCall(r, k) ==
  LET nd == Len(r.toDelete)
      nu == Len(r.toUpdate)
  IN  IF k <= nd THEN ErrorMsg("delete", r.toDelete[k])
      ELSE IF k <= nd + nu THEN ErrorMsg("update", r.toUpdate[k - nd].CodigoImovel)
      ELSE ErrorMsg("add", r.toAdd[k - nd - nu].CodigoImovel)

\* The messages of the calls that failed so far, in the order of the calls.
ExpectedErrors(r) ==
  LET failed(k) == k \in FailedCalls(r)
      ks == SelectSeq([k \in 1..Len(CallOutcomes(r)) |-> k], failed)
  IN  [j \in 1..Len(ks) |-> MessageOfCall(r, ks[j])]

MessageRank(op) == CASE op = "delete" -> 1 [] op = "update" -> 2 [] op = "add" -> 3

\* C25: the error list of a run that got its snapshot holds one message per
\* failed per-record call and nothing else, in the order of the calls: the
\* failed soft deletes in baseline order, then the failed updates, then the
\* failed inserts, both in snapshot order, each message with its operation
\* and the code of its record; a run that stopped at the fetch has no
\* per-record message.
ErrorListOrder ==
  \A p \in Procs :
    LET r == run[p]
        errors == r.result.errors
        inDelete(code) == code \in Range(r.toDelete)
        inUpdate(imovel) == imovel \in Range(r.toUpdate)
        inAdd(imovel) == imovel \in Range(r.toAdd)
    IN  /\ ~r.fetchFailed =>
             /\ errors = ExpectedErrors(r)
             /\ Len(errors) = Cardinality(FailedEntries(r, RecordOps))
             /\ \A a, b \in 1..Len(errors) :
                  a < b => MessageRank(errors[a].op) <= MessageRank(errors[b].op)
        /\ Diffed(r) =>
             /\ r.toDelete = SelectSeq(r.existingCodes, inDelete)
             /\ r.toUpdate = SelectSeq(r.apiImoveis, inUpdate)
             /\ r.toAdd = SelectSeq(r.apiImoveis, inAdd)
        /\ r.fetchFailed =>
             /\ FailedEntries(r, RecordOps) = {}
             /\ \A k \in 1..Len(errors) : errors[k].op = "sync"

\* The end-to-end scenario with the soft delete of A, the update of C and the
\* insert of D failed and the update of B gone through.
ErrorListOrderWitness ==
  \E p \in Procs :
    LET r == run[p] IN
    /\ Completed(r)
    /\ r.toUpdate = <<ScenarioSnapshot[1], ScenarioSnapshot[2]>>
    /\ r.result.updated = 1
    /\ r.result.errors = <<ErrorMsg("delete", "A"), ErrorMsg("update", "C"), ErrorMsg("add", "D")>>

\* ---------------------------------------------------------------- every spelling of the flag
\* A new deployment on an empty table whose feed spells the publish flag
\* "1", "true" or "0".
InitFlags ==
  /\ run = [p \in Procs |-> FreshRun]
  /\ probe = NoProbe
  /\ source = "flags"
  /\ store = EmptyStore

SpecFlags == InitFlags /\ [][Next]_vars

\* The codes of the snapshot are pairwise distinct.
UniqueCodes(imoveis) ==
  \A a, b \in 1..Len(imoveis) : imoveis[a].CodigoImovel = imoveis[b].CodigoImovel => a = b

\* The codes of the snapshot whose publish flag is on.
PublishedCodes(imoveis) ==
  {imoveis[k].CodigoImovel : k \in {j \in 1..Len(imoveis) : imoveis[j].Publicar \in {"1", "true"}}}

\* The run has returned, its baseline read and all its calls went through.
CleanRun(r) ==
  /\ Completed(r)
  /\ \A k \in 1..Len(r.log) : r.log[k].outcome = "ok"

\* C26: after a run whose baseline read and store calls all went through, on
\* a snapshot of distinct codes, the active codes of the store are the codes
\* of the snapshot whose publish flag is "1" or "true"; the other codes of the
\* snapshot and the codes of the baseline the snapshot lacks have a row that
\* is not active.
ActiveSetFollowsPublishFlag ==
  \A p \in Procs :
    LET r == run[p] IN
    (CleanRun(r) /\ UniqueCodes(r.apiImoveis)) =>
      /\ SelectActiveCodes(store) = PublishedCodes(r.apiImoveis)
      /\ \A c \in CodesOf(r.apiImoveis) \ PublishedCodes(r.apiImoveis) :
           c \in DOMAIN store /\ ~store[c].ativo
      /\ \A c \in Range(r.existingCodes) \ CodesOf(r.apiImoveis) :
           c \in DOMAIN store /\ ~store[c].ativo

\* A clean run that updated A with the flag "0" and added B with the flag
\* "true": B alone is active, not the whole snapshot.
ActiveSetWitness ==
  \E p \in Procs :
    LET r == run[p] IN
    /\ CleanRun(r)
    /\ r.apiImoveis = <<[CodigoImovel |-> "A", Publicar |-> "0"],
                        [CodigoImovel |-> "B", Publicar |-> "true"]>>
    /\ r.result.updated = 1 /\ r.result.added = 1
    /\ SelectActiveCodes(store) = {"B"}
    /\ DOMAIN store = {"A", "B"}

\* The row of code c was there and inactive when run r was invoked.
InactiveAtStart(r, c) == r.pc # "idle" /\ c \in DOMAIN r.store0 /\ ~r.store0[c].ativo

\* C27: a code whose row is inactive when a run is invoked is outside the
\* baseline of that run; if the snapshot has the code the run puts it in toAdd
\* and not in toUpdate, issues inserts for it and no update or soft delete,
\* every such insert fails and the run returns success = false; and no step
\* of any run changes a row that was inactive when the run was invoked, so
\* over any sequence of runs the row is never updated or made active again.
InactiveRowNeverRevived ==
  [][/\ \A p \in Procs : \A c \in DOMAIN store' :
          LET r == run'[p] IN
          InactiveAtStart(r, c) =>
            /\ store'[c] = r.store0[c]
            /\ c \notin Range(r.existingCodes)
            /\ \A k \in Entries(r, {"update", "softDelete"}) : r.log[k].code # c
            /\ \A k \in Entries(r, {"insert"}) : r.log[k].code = c => r.log[k].outcome # "ok"
            /\ (Diffed(r) /\ c \in CodesOf(r.apiImoveis)) =>
                 /\ c \in CodesOf(r.toAdd)
                 /\ c \notin CodesOf(r.toUpdate)
                 /\ Completed(r) =>
                      /\ \E k \in FailedEntries(r, {"insert"}) : r.log[k].code = c
                      /\ ErrorMsg("add", c) \in Range(r.result.errors)
                      /\ ~r.result.success
     /\ \A c \in DOMAIN store :
          (/\ ~store[c].ativo
           /\ \A p \in Procs : run[p].pc \in {"idle", "done"} \/ InactiveAtStart(run[p], c))
            => c \in DOMAIN store' /\ store'[c] = store[c]]_vars

\* A run that found the row of a code soft-deleted by an earlier run, got the
\* code back in its snapshot with the publish flag on, was refused the insert
\* by the key and returned success = false; the row is as it was.
InactiveRowWitness ==
  \E p \in Procs : \E c \in DOMAIN store :
    LET r == run[p] IN
    /\ Completed(r)
    /\ ~r.baselineFailed
    /\ InactiveAtStart(r, c)
    /\ r.store0[c].data_atualizacao = CurrentTimestamp
    /\ \E k \in 1..Len(r.toAdd) : r.toAdd[k] = [CodigoImovel |-> c, Publicar |-> "1"]
    /\ \E k \in FailedEntries(r, {"insert"}) : r.log[k].code = c /\ r.log[k].outcome = "constraint"
    /\ ~r.result.success
    /\ store[c] = [ativo |-> FALSE, data_atualizacao |-> CurrentTimestamp]

\* C28: in the calls of one run no code is the target of two per-record
\* calls, whatever snapshot the source adapter returned, a snapshot with two
\* records of one code included.
AtMostOneCallPerCode ==
  \A p \in Procs :
    LET r == run[p] IN
    \A a, b \in Entries(r, RecordOps) : r.log[a].code = r.log[b].code => a = b

\* The soft deletes of the whole baseline, in baseline order.
DeleteAll(existingCodes) ==
  [k \in 1..Len(existingCodes) |-> [op |-> "softDelete", code |-> existingCodes[k]]]

\* C29: a feed that was fetched and parsed and yields no valid listing (no
\* element, only elements without code or title, or a throw inside the
\* extraction) comes out of the source adapter as a successful response with
\* an empty snapshot; the run does not abort on it: it plans and issues the
\* soft delete of every code of its baseline and nothing else, and when these
\* go through it returns success = true with deleted = |baseline|, zero added
\* and updated, and no row of the baseline active.
EmptySnapshotDeactivatesAll ==
  \A p \in Procs :
    LET r == run[p] IN
    /\ (source = "raw" /\ r.pc = "fetch") =>
         \A parsedData \in Payloads(source) :
           (\A k \in 1..Len(ImovelArray(parsedData)) :
              ~isValidImovel(ImovelArray(parsedData)[k])) =>
             /\ getImoveis(parsedData) = ApiSuccess(<< >>)
             /\ ~FetchRejected(getImoveis(parsedData))
    /\ (Diffed(r) /\ r.apiImoveis = << >>) =>
         /\ r.toAdd = << >> /\ r.toUpdate = << >>
         /\ r.toDelete = r.existingCodes
         /\ ~r.baselineFailed => Range(r.existingCodes) = SelectActiveCodes(r.store0)
         /\ IsPrefix(Attempted(r), DeleteAll(r.existingCodes))
    /\ (Completed(r) /\ r.apiImoveis = << >>) =>
         /\ Attempted(r) = DeleteAll(r.existingCodes)
         /\ r.result.deleted + Len(r.result.errors) = Len(r.existingCodes)
         /\ FailedEntries(r, RecordOps) = {} =>
              /\ r.result = [FreshResult EXCEPT !.success = TRUE,
                                                !.deleted = Len(r.existingCodes)]
              /\ \A c \in Range(r.existingCodes) : ~store[c].ativo

\* A run that found A active, got a feed of two elements neither of which
\* is valid, soft-deleted A and returned success = true with deleted = 1.
EmptySnapshotWitness ==
  \E p \in Procs :
    LET r == run[p] IN
    /\ Completed(r)
    /\ r.payload = "many" /\ r.dropped = 2
    /\ r.apiImoveis = << >>
    /\ r.existingCodes = <<"A">>
    /\ r.result = [FreshResult EXCEPT !.success = TRUE, !.deleted = 1]
    /\ ~store["A"].ativo

\* ---------------------------------------------------------------- two runs, one snapshot
\* The store one run alone leaves when it finds store s, fetches snapshot
\* apiImoveis and no call fails on the connection.
SoloStore(s, apiImoveis) ==
  LET existingCodes == CHOOSE codes \in Perms(SelectActiveCodes(s)) : TRUE
      solo == [toDelete |-> ToDelete(apiImoveis, existingCodes),
               toUpdate |-> ToUpdate(apiImoveis, existingCodes),
               toAdd |-> ToAdd(apiImoveis, existingCodes)]
  IN  ApplyInOrder(solo, s, <<"delete", "update", "add">>, {}).store

\* Both invocations were made on the store as deployed, fetched the same
\* snapshot, of distinct codes, and have returned, and no call of either
\* failed on the connection.
SameSnapshotPair ==
  /\ \A p \in Procs :
       /\ Completed(run[p])
       /\ run[p].store0 = RaceStore
       /\ \A k \in 1..Len(run[p].log) : run[p].log[k].outcome # "connection"
  /\ run[1].apiImoveis = run[2].apiImoveis
  /\ UniqueCodes(run[1].apiImoveis)

\* The number of inserts of code c that went through, in run r.
InsertedCount(r, c) == Cardinality({k \in OkEntries(r, {"insert"}) : r.log[k].code = c})

\* The codes of the snapshot that are not in the baseline of the store as
\* deployed.
NewCodes == CodesOf(run[1].apiImoveis) \ SelectActiveCodes(RaceStore)

====
